---------------------------- MODULE Spec2Model ----------------------------
(***************************************************************************)
(* A model of git-casefile's GitInteraction (share / delete / retrieve     *)
(* over refs/collaboration/shared-casefiles), of the CommandRunner's      *)
(* settlement logic, and of SeparatedRecordConsumer, Janitor,              *)
(* DiffInteraction.getHunks and BookmarkFacilitator.currentLocation.       *)
(*                                                                         *)
(* Strings whose characters matter (casefile paths, tree entry names) are  *)
(* sequences of one-character strings, so that '/' can be searched for.    *)
(* Git objects are content-addressed: an object's hash is modelled by the  *)
(* object itself (an injective hash).                                      *)
(***************************************************************************)
EXTENDS Integers, Sequences, FiniteSets, TLC

VARIABLES
  localRef,    \* value of refs/collaboration/shared-casefiles in the local repo
  remoteRef,   \* value of the same ref in the remote repo
  op,          \* the operation in progress: kind and arguments
  pc,          \* the await the operation is suspended at
  lv,          \* the operation's local variables
  calls,       \* object-writing and ref-changing git commands invoked by the operation
  outcome,     \* settlement of the operation's promise
  prev,        \* the operation that ran before this one, and how it ended
  opsDone,     \* operations started in this session
  rIn,         \* CommandRunner: keyword arguments and runner options of the invocation
  closesComplete, \* CommandRunner: the closesComplete object
  child,       \* CommandRunner: the child process and its stdout consumer stream
  execution,   \* CommandRunner: state of executionPromise
  timer,       \* CommandRunner: the timeout timer
  invocation,  \* CommandRunner: state of the promise returned to the caller
  cb,          \* CommandRunner: calls made to the exit / makeResult callbacks
  src,         \* SeparatedRecordConsumer: the stream, its input and the records emitted
  jan,         \* Janitor: its tasks, the tasks invoked and the last cleanUp
  dh,          \* DiffInteraction: one getHunks call, its Janitor and the temp files
  bm,          \* BookmarkFacilitator: one currentLocation call
  lp,          \* BookmarkFacilitator: one computeLinePeg call
  dl,          \* GitInteraction: one getDeletedCasefileRefs call
  ls,          \* GitInteraction: one getListOfCasefiles call
  sc,          \* GitInteraction: one selectCommitsUnknownToRemote call
  mk,          \* GitInteraction: one mktree call
  li,          \* GitInteraction: one lineIntroduction call
  fc,          \* GitInteraction: one findCurrentLinePosition call
  pr,          \* a peg line and a current line taken through one list of hunks
  lt,          \* findLatestCommitParentWithPath over the parents of one commit
  co           \* what another collaborator has shared to the remote meanwhile

gitVars == <<localRef, remoteRef, op, pc, lv, calls, outcome, prev, opsDone>>
runVars == <<rIn, closesComplete, child, execution, timer, invocation, cb>>
libVars == <<src, jan, dh, bm, lp, dl, ls, sc, mk, li, fc, pr, lt, co>>
vars == <<localRef, remoteRef, op, pc, lv, calls, outcome, prev, opsDone,
          rIn, closesComplete, child, execution, timer, invocation, cb, src, jan, dh, bm, lp, dl, ls, sc, mk, li, fc, pr, lt, co>>
\* What the actions of one component leave alone.
notSrc == <<gitVars, runVars, jan, dh, bm, lp, dl, ls, sc, mk, li, fc, pr, lt, co>>
notJan == <<gitVars, runVars, src, dh, bm, lp, dl, ls, sc, mk, li, fc, pr, lt, co>>
notDh == <<gitVars, runVars, src, jan, bm, lp, dl, ls, sc, mk, li, fc, pr, lt, co>>
notBm == <<gitVars, runVars, src, jan, dh, lp, dl, ls, sc, mk, li, fc, pr, lt, co>>
notLp == <<gitVars, runVars, src, jan, dh, bm, dl, ls, sc, mk, li, fc, pr, lt, co>>
notDl == <<gitVars, runVars, src, jan, dh, bm, lp, ls, sc, mk, li, fc, pr, lt, co>>
notLs == <<gitVars, runVars, src, jan, dh, bm, lp, dl, sc, mk, li, fc, pr, lt, co>>
notSc == <<gitVars, runVars, src, jan, dh, bm, lp, dl, ls, mk, li, fc, pr, lt, co>>
notMk == <<gitVars, runVars, src, jan, dh, bm, lp, dl, ls, sc, li, fc, pr, lt, co>>
notLi == <<gitVars, runVars, src, jan, dh, bm, lp, dl, ls, sc, mk, fc, pr, lt, co>>
notFc == <<gitVars, runVars, src, jan, dh, bm, lp, dl, ls, sc, mk, li, pr, lt, co>>
notPr == <<gitVars, runVars, src, jan, dh, bm, lp, dl, ls, sc, mk, li, fc, lt, co>>
notLt == <<gitVars, runVars, src, jan, dh, bm, lp, dl, ls, sc, mk, li, fc, pr, co>>
notCo == <<gitVars, runVars, src, jan, dh, bm, lp, dl, ls, sc, mk, li, fc, pr, lt>>

\* Number of operations one session runs.
MaxOps == 2

-----------------------------------------------------------------------------
(* Strings *)

Range(s) == {s[i] : i \in DOMAIN s}

\* String.prototype.lastIndexOf(sep, fromIndex) for a one-character sep,
\* 0-based, -1 when absent; a negative fromIndex searches index 0 only.
lastIndexOf(s, sep, fromIndex) ==
  LET from == IF fromIndex < 0 THEN 0 ELSE fromIndex
      hits == {i \in 0..(Len(s) - 1) : i <= from /\ s[i + 1] = sep}
  IN  IF hits = {} THEN -1 ELSE CHOOSE i \in hits : \A j \in hits : j <= i

\* String.prototype.slice(from, to), 0-based, to exclusive.
slice(s, from, to) == SubSeq(s, from + 1, to)

includes(s, ch) == \E i \in DOMAIN s : s[i] = ch

RECURSIVE strrpartFrom(_, _, _, _, _)
strrpartFrom(s, sep, maxCount, start, result) ==
  IF Len(result) + 1 >= maxCount
    THEN <<slice(s, 0, start)>> \o result
    ELSE LET sepIndex == lastIndexOf(s, sep, start - 1)
         IN  IF sepIndex < 0
               THEN <<slice(s, 0, start)>> \o result
               ELSE strrpartFrom(s, sep, maxCount, sepIndex,
                                 <<slice(s, sepIndex + 1, start)>> \o result)

strrpart(s, sep, maxCount) == strrpartFrom(s, sep, maxCount, Len(s), <<>>)

\* `${group}/${name}`
joinPath(group, name) == group \o <<"/">> \o name

-----------------------------------------------------------------------------
(* Git objects *)

None == [obj |-> "none"]
Blob(text) == [obj |-> "blob", content |-> text]
Tree(entries) == [obj |-> "tree", entries |-> entries]
Commit(tree, parents, message) ==
  [obj |-> "commit", tree |-> tree, parents |-> parents, message |-> message]
TreeEntry(mode, type, hash, name) ==
  [mode |-> mode, type |-> type, hash |-> hash, name |-> name]

gitEmptyTree == Tree({})

\* The empty string given as a commit (push source, update-ref value).
EmptyString == [obj |-> "empty-string"]

-----------------------------------------------------------------------------
(* JSON text of a casefile blob, as a sequence of tokens *)

RECURSIVE joinTokens(_)
joinTokens(items) ==
  IF Len(items) = 0 THEN <<>>
  ELSE IF Len(items) = 1 THEN <<items[1]>>
  ELSE <<items[1], ",">> \o joinTokens(Tail(items))

\* JSON.stringify of an array of bookmarks
JSONstringifyArray(items) == <<"[">> \o joinTokens(items) \o <<"]">>

\* JSON.stringify({bookmarks})
JSONstringify(bookmarks) ==
  <<"{", "bookmarks", ":">> \o JSONstringifyArray(bookmarks) \o <<"}">>

\* The elements between the brackets of a JSON array text.
RECURSIVE dropCommas(_)
dropCommas(toks) ==
  IF toks = <<>> THEN <<>>
  ELSE IF Head(toks) = "," THEN dropCommas(Tail(toks))
  ELSE <<Head(toks)>> \o dropCommas(Tail(toks))

\* JSON.parse of a casefile blob: a bare array, or an object with "bookmarks".
JSONparse(text) ==
  IF text[1] = "["
    THEN [isArray |-> TRUE,
          items |-> dropCommas(SubSeq(text, 2, Len(text) - 1)),
          bookmarks |-> <<>>]
    ELSE [isArray |-> FALSE,
          items |-> <<>>,
          bookmarks |-> dropCommas(SubSeq(text, 5, Len(text) - 2))]

-----------------------------------------------------------------------------
(* What git does, as the plumbing commands used here observe it *)

\* Order of characters in tree entry names.
CharOrder == <<"/", "a", "b", "c", "x", "y">>
CharRank(ch) == CHOOSE i \in DOMAIN CharOrder : CharOrder[i] = ch

RECURSIVE NameLess(_, _)
NameLess(n, m) ==
  IF m = <<>> THEN FALSE
  ELSE IF n = <<>> THEN TRUE
  ELSE IF Head(n) = Head(m) THEN NameLess(Tail(n), Tail(m))
  ELSE CharRank(Head(n)) < CharRank(Head(m))

EntryLess(e, f) == NameLess(e.name, f.name)

SetToSeq(S) == CHOOSE q \in [1..Cardinality(S) -> S] : Range(q) = S

\* A commit peels to its tree.
TreeOf(o) == IF o.obj = "commit" THEN o.tree ELSE o

\* The path components git walks for <rev>:<path>.
RECURSIVE SplitPath(_)
SplitPath(path) ==
  LET i == CHOOSE k \in 1..(Len(path) + 1) :
             /\ k = Len(path) + 1 \/ path[k] = "/"
             /\ \A j \in 1..(k - 1) : path[j] # "/"
  IN  IF i = Len(path) + 1 THEN <<path>>
      ELSE <<SubSeq(path, 1, i - 1)>> \o SplitPath(SubSeq(path, i + 1, Len(path)))

RECURSIVE Walk(_, _)
Walk(o, names) ==
  IF names = <<>> THEN o
  ELSE IF o.obj # "tree" THEN None
  ELSE LET hit == {e \in o.entries : e.name = Head(names)}
       IN  IF hit = {} THEN None
           ELSE Walk((CHOOSE e \in hit : TRUE).hash, Tail(names))

\* The object <rev>:<path> names; <rev> alone when path is empty.
GitObjectAt(rev, path) ==
  IF rev.obj \notin {"commit", "tree"} THEN None
  ELSE IF path = <<>> THEN TreeOf(rev)
  ELSE Walk(TreeOf(rev), SplitPath(path))

\* git ls-tree -z --full-tree <treeish>: one record per entry, in name order.
GitLsTree(rev, path) ==
  LET o == GitObjectAt(rev, path)
  IN  IF o.obj = "tree"
        THEN [exitCode |-> 0,
              stdout |-> [i \in 1..Cardinality(o.entries) |->
                            LET e == SortSeq(SetToSeq(o.entries), EntryLess)[i]
                            IN  <<e.mode, e.type, e.hash, e.name>>]]
        ELSE [exitCode |-> 128, stdout |-> <<>>]

\* git mktree -z: the tree object holding the records fed to it.
GitMktree(records) ==
  Tree({TreeEntry(r[1], r[2], r[3], r[4]) : r \in Range(records)})

RECURSIVE IsAncestor(_, _)
IsAncestor(a, c) ==
  \/ a = c
  \/ /\ c.obj = "commit"
     /\ \E i \in DOMAIN c.parents : IsAncestor(a, c.parents[i])

\* git push <remote> <source>:<ref> without '+': accepted when the remote ref is
\* absent or an ancestor of source; an empty source deletes an existing remote ref.
GitPushAccepted(remote, source) ==
  IF source = EmptyString THEN remote # None
  ELSE remote = None \/ IsAncestor(remote, source)

GitPushResult(remote, source) ==
  IF source = EmptyString THEN None ELSE source

-----------------------------------------------------------------------------
(* GitInteraction's plumbing methods.  Each returns the settlement of its   *)
(* promise.  `fault` is a failure of the command runner itself (Timeout,    *)
(* SpawningFailure), which can strike any invocation.                       *)

Faults == {"none", "Timeout", "BadOptionsKey"}

\* err[ASSERT_ERROR]: of the runner's failures, the OptionsError that
\* normalizeOpts throws carries the marker.
neverMarked(r) == FALSE
hasAssertError(r) == r.status = "rejected" /\ r.code = "BadOptionsKey"

Resolved(v) == [status |-> "resolved", value |-> v, code |-> "none"]
Rejected(c) == [status |-> "rejected", value |-> None, code |-> c]
Pending == [status |-> "pending", value |-> None, code |-> "none"]

\* revParse(sharedCasefilesRef): the commit, or a rejection when git exits
\* non-zero because the ref does not exist.
revParse(ref, fault) ==
  IF fault # "none" THEN Rejected(fault)
  ELSE IF ref = None THEN Rejected("ChildProcessFailure")
  ELSE Resolved(ref)

\* getHashOfCasefile: git hash-object -w --stdin fed JSON.stringify({bookmarks}).
getHashOfCasefile(bookmarks, fault) ==
  IF fault # "none" THEN Rejected(fault)
  ELSE Resolved(Blob(JSONstringify(bookmarks)))

\* gitLsTreeEntryRegex applied to one record: mode, type, hash and a non-empty name.
lsTreeEntries(records) ==
  LET matching == SelectSeq(records, LAMBDA r : Len(r[4]) > 0)
  IN  [i \in DOMAIN matching |->
         TreeEntry(matching[i][1], matching[i][2], matching[i][3], matching[i][4])]

\* lsTree(`${rev}:${path}`), or lsTree(rev) when path is empty: exits non-zero
\* resolve with [].
lsTree(rev, path, fault) ==
  IF fault # "none" THEN Rejected(fault)
  ELSE LET run == GitLsTree(rev, path)
       IN  Resolved(IF run.exitCode # 0 THEN <<>> ELSE lsTreeEntries(run.stdout))

mktree(entries, fault) ==
  LET badEntries == SelectSeq(entries, LAMBDA e : includes(e.name, "/"))
      result == GitMktree([i \in DOMAIN entries |->
                  <<entries[i].mode, entries[i].type, entries[i].hash, entries[i].name>>])
  IN  IF Len(badEntries) # 0 THEN Rejected("InvalidTreeEntry")
      ELSE IF fault # "none" THEN Rejected(fault)
      ELSE IF result = gitEmptyTree THEN Rejected("InvalidTreeResult")
      ELSE Resolved(result)

\* The mutant passes no -p option.
commitCasefilesTreeOrphan(tree, parents, message, fault) ==
  IF fault # "none" THEN Rejected(fault)
  ELSE Resolved(Commit(tree, <<>>, message))

\* commitCasefilesTree(tree, {parents, message}): git commit-tree -m message -p ... tree
commitCasefilesTree(tree, parents, message, fault) ==
  IF fault # "none" THEN Rejected(fault)
  ELSE Resolved(Commit(tree, parents, message))

\* push(remote, {source, dest: sharedCasefilesRef}): rejects when git push fails.
push(remote, source, fault) ==
  IF fault # "none" THEN Rejected(fault)
  ELSE IF ~GitPushAccepted(remote, source) THEN Rejected("ChildProcessFailure")
  ELSE Resolved(None)

\* git update-ref <ref> <newvalue>: git dies ("not a valid SHA1") unless the new
\* value names an object.
GitUpdateRefAccepted(newvalue) == newvalue.obj = "commit"

\* updateRef(sharedCasefilesRef, commit)
updateRef(commit, fault) ==
  IF fault # "none" THEN Rejected(fault)
  ELSE IF ~GitUpdateRefAccepted(commit) THEN Rejected("ChildProcessFailure")
  ELSE Resolved(None)

-----------------------------------------------------------------------------
(* Inputs and initial repositories *)

sharedCasefilesRef == "refs/collaboration/shared-casefiles"

P_ax == <<"a", "/", "x">>
P_ay == <<"a", "/", "y">>
P_cx == <<"c", "/", "x">>
P_abx == <<"a", "/", "b", "/", "x">>   \* the group a/b itself contains '/'
CasefilePaths == {P_ax, P_ay, P_cx, P_abx}

\* The paths handed to shareCasefile.
SharePaths == {P_ax, P_cx, P_abx}
BookmarkLists == {<<>>, <<"m1", "m2">>}

\* The arrays of paths handed to deleteCasefilePaths.
PathLists == {<<P_ax>>, <<P_cx>>, <<P_abx>>, <<P_ax, P_ay>>, <<P_cx, P_ay, P_ax>>}

BlobEntry(name, blob) == TreeEntry("100644", "blob", blob, name)
SubtreeEntry(name, tree) == TreeEntry("040000", "tree", tree, name)

LegacyBlob == Blob(JSONstringifyArray(<<"m1">>))

\* One group with its single instance.
Tree1 == Tree({SubtreeEntry(<<"a">>, Tree({BlobEntry(<<"x">>, Blob(JSONstringify(<<>>)))}))})
\* Two groups; a/y is a legacy (bare array) blob.
Tree2 ==
  Tree({SubtreeEntry(<<"a">>, Tree({BlobEntry(<<"x">>, Blob(JSONstringify(<<>>))),
                                    BlobEntry(<<"y">>, LegacyBlob)})),
        SubtreeEntry(<<"c">>, Tree({BlobEntry(<<"x">>, Blob(JSONstringify(<<"m1", "m2">>)))}))})
\* A casefile group whose name contains a slash (a/b), as listed by getListOfCasefiles.
Tree3 ==
  Tree({SubtreeEntry(<<"a">>,
          Tree({SubtreeEntry(<<"b">>, Tree({BlobEntry(<<"x">>, Blob(JSONstringify(<<>>)))}))}))})

InitialRefs ==
  {None} \cup {Commit(t, <<>>, "Share casefile") : t \in {Tree1, Tree2, Tree3}}

NoOp == [kind |-> "none", path |-> <<>>, bookmarks |-> <<>>, paths |-> <<>>]
NoGroups == [g \in {} |-> None]

\* The local variables of an operation, as its first statement leaves them.
LvInit ==
  [parentCommits |-> <<>>,
   currentCasefilesTree |-> gitEmptyTree,
   casefileHash |-> None,
   groupTreeEntries |-> <<>>,
   groupTreeHash |-> None,
   rootTreeEntries |-> <<>>,
   newTree |-> None,
   newCommit |-> None,
   groups |-> NoGroups,              \* the Map group -> new group tree (None for null)
   tasks |-> NoGroups,               \* where each group's async callback stands
   remainingEntries |-> NoGroups,    \* each callback's remainingEntries
   foundEntriesToRemove |-> FALSE,
   failed |-> {},                    \* steps whose rejection rejected the operation
   caught |-> {},                    \* steps whose rejection a handler took
   recovered |-> {},                 \* the codes of the errors so taken
   asserted |-> FALSE,               \* a handler threw a marked error on
   faulted |-> FALSE]                \* a command-runner fault struck this operation

Call(cmd, arg, ok) == [cmd |-> cmd, arg |-> arg, dest |-> sharedCasefilesRef,
                       force |-> FALSE, ok |-> ok]

\* The mutant lets a rejected push through to the update-ref that follows it.
FailUnlessPush(step, r, fault) ==
  /\ lv' = [lv EXCEPT !.failed = @ \cup {step}, !.faulted = @ \/ (fault # "none")]
  /\ IF step = "push"
       THEN /\ pc' = IF op.kind = "share" THEN "s_updateRef" ELSE "d_updateRef"
            /\ UNCHANGED outcome
       ELSE /\ outcome' = Rejected(r.code)
            /\ pc' = "idle"

\* A step's promise rejected and nothing catches it: the operation rejects.
Fail(step, r, fault) ==
  /\ lv' = [lv EXCEPT !.failed = @ \cup {step}, !.faulted = @ \/ (fault # "none")]
  /\ outcome' = Rejected(r.code)
  /\ pc' = "idle"

Begin(newOp, firstPc, locals) ==
  /\ pc = "idle"
  /\ opsDone < MaxOps
  /\ opsDone' = opsDone + 1
  /\ prev' = [op |-> op, outcome |-> outcome, faulted |-> lv.faulted,
              localRef |-> localRef]
  /\ op' = newOp
  /\ lv' = locals
  /\ calls' = <<>>
  /\ outcome' = Pending
  /\ pc' = firstPc
  /\ UNCHANGED <<localRef, remoteRef>>

\* The mutant never finds the entry.
findIndexNever(entries, name) == -1

\* Array.prototype.findIndex on entry names, 0-based, -1 when absent.
findIndexByName(entries, name) ==
  LET hits == {i \in DOMAIN entries : entries[i].name = name}
  IN  IF hits = {} THEN -1 ELSE (CHOOSE i \in hits : \A j \in hits : i <= j) - 1

\* What a push that the runner gave up on (Timeout) may still have done.
RemoteAfterPush(r, fault, source) ==
  IF r.status = "resolved" THEN {GitPushResult(remoteRef, source)}
  ELSE IF fault # "none" /\ GitPushAccepted(remoteRef, source)
    THEN {remoteRef, GitPushResult(remoteRef, source)}
  ELSE {remoteRef}

\* The local ref after update-ref; a call the runner gave up on may have acted.
LocalAfterUpdateRef(r, fault, commit) ==
  IF r.status = "resolved" THEN {commit}
  ELSE IF fault # "none" /\ GitUpdateRefAccepted(commit) THEN {localRef, commit}
  ELSE {localRef}

-----------------------------------------------------------------------------
(* shareCasefile(remote, path, bookmarks) *)

ShareGroup == strrpart(op.path, "/", 2)[1]
ShareInstance == strrpart(op.path, "/", 2)[2]

StartShare ==
  /\ \E path \in SharePaths, bookmarks \in BookmarkLists :
       Begin([kind |-> "share", path |-> path, bookmarks |-> bookmarks, paths |-> <<>>],
             "s_revParse", LvInit)
  /\ UNCHANGED <<runVars, libVars>>

ShareRevParse ==
  /\ pc = "s_revParse"
  /\ \E fault \in Faults :
       LET r == revParse(localRef, fault)
       IN  IF r.status = "resolved"
             THEN /\ lv' = [lv EXCEPT !.parentCommits = <<r.value>>,
                                      !.currentCasefilesTree = r.value]
                  /\ pc' = "s_hash"
                  /\ UNCHANGED outcome
           ELSE IF hasAssertError(r)
             THEN /\ lv' = [lv EXCEPT !.failed = @ \cup {"rev-parse"},
                                      !.asserted = TRUE,
                                      !.faulted = TRUE]
                  /\ outcome' = Rejected(r.code)
                  /\ pc' = "idle"
           ELSE /\ lv' = [lv EXCEPT !.caught = @ \cup {"rev-parse"},
                                    !.recovered = @ \cup {r.code},
                                    !.faulted = @ \/ (fault # "none")]
                /\ pc' = "s_hash"
                /\ UNCHANGED outcome
  /\ UNCHANGED <<localRef, remoteRef, op, calls, prev, opsDone>>
  /\ UNCHANGED <<runVars, libVars>>

ShareHash ==
  /\ pc = "s_hash"
  /\ \E fault \in Faults :
       LET r == getHashOfCasefile(op.bookmarks, fault)
       IN  IF r.status = "resolved"
             THEN /\ lv' = [lv EXCEPT !.casefileHash = r.value]
                  /\ pc' = "s_lsGroup"
                  /\ UNCHANGED outcome
             ELSE Fail("hash-object", r, fault)
  /\ UNCHANGED <<localRef, remoteRef, op, calls, prev, opsDone>>
  /\ UNCHANGED <<runVars, libVars>>

ShareLsGroup ==
  /\ pc = "s_lsGroup"
  /\ \E fault \in Faults :
       LET r == lsTree(lv.currentCasefilesTree, ShareGroup, fault)
           existingIndex == findIndexByName(r.value, ShareInstance)
           newEntry == TreeEntry("100644", "blob", lv.casefileHash, ShareInstance)
       IN  IF r.status # "resolved" THEN Fail("ls-tree", r, fault)
           ELSE IF existingIndex < 0
             THEN /\ lv' = [lv EXCEPT !.groupTreeEntries = Append(r.value, newEntry)]
                  /\ pc' = "s_mkGroup"
                  /\ UNCHANGED outcome
           ELSE IF r.value[existingIndex + 1].hash = lv.casefileHash
             THEN /\ outcome' = Resolved([message |-> "no changes to share",
                                          commit |-> lv.currentCasefilesTree])
                  /\ pc' = "idle"
                  /\ UNCHANGED lv
           ELSE /\ lv' = [lv EXCEPT !.groupTreeEntries =
                                      [r.value EXCEPT ![existingIndex + 1] = newEntry]]
                /\ pc' = "s_mkGroup"
                /\ UNCHANGED outcome
  /\ UNCHANGED <<localRef, remoteRef, op, calls, prev, opsDone>>
  /\ UNCHANGED <<runVars, libVars>>

\* mktree invokes git only when no entry name is bad.
MktreeCalls(r) ==
  IF r.code = "InvalidTreeEntry" THEN calls
  ELSE Append(calls, Call("mktree", r.value, r.status = "resolved"))

ShareMkGroup ==
  /\ pc = "s_mkGroup"
  /\ \E fault \in Faults :
       LET r == mktree(lv.groupTreeEntries, fault)
       IN  /\ calls' = MktreeCalls(r)
           /\ IF r.status = "resolved"
                THEN /\ lv' = [lv EXCEPT !.groupTreeHash = r.value]
                     /\ pc' = "s_lsRoot"
                     /\ UNCHANGED outcome
                ELSE Fail("mktree", r, fault)
  /\ UNCHANGED <<localRef, remoteRef, op, prev, opsDone>>
  /\ UNCHANGED <<runVars, libVars>>

ShareLsRoot ==
  /\ pc = "s_lsRoot"
  /\ \E fault \in Faults :
       LET r == lsTree(lv.currentCasefilesTree, <<>>, fault)
       IN  IF r.status = "resolved"
             THEN /\ lv' = [lv EXCEPT !.rootTreeEntries =
                              Append(SelectSeq(r.value, LAMBDA e : e.name # ShareGroup),
                                     TreeEntry("040000", "tree", lv.groupTreeHash, ShareGroup))]
                  /\ pc' = "s_mkRoot"
                  /\ UNCHANGED outcome
             ELSE Fail("ls-tree", r, fault)
  /\ UNCHANGED <<localRef, remoteRef, op, calls, prev, opsDone>>
  /\ UNCHANGED <<runVars, libVars>>

ShareMkRoot ==
  /\ pc = "s_mkRoot"
  /\ \E fault \in Faults :
       LET r == mktree(lv.rootTreeEntries, fault)
       IN  /\ calls' = MktreeCalls(r)
           /\ IF r.status = "resolved"
                THEN /\ lv' = [lv EXCEPT !.newTree = r.value]
                     /\ pc' = "s_commit"
                     /\ UNCHANGED outcome
                ELSE Fail("mktree", r, fault)
  /\ UNCHANGED <<localRef, remoteRef, op, prev, opsDone>>
  /\ UNCHANGED <<runVars, libVars>>

ShareCommit ==
  /\ pc = "s_commit"
  /\ \E fault \in Faults :
       LET r == commitCasefilesTree(lv.newTree, lv.parentCommits, "Share casefile", fault)
       IN  /\ calls' = Append(calls, Call("commit-tree", r.value, r.status = "resolved"))
           /\ IF r.status = "resolved"
                THEN /\ lv' = [lv EXCEPT !.newCommit = r.value]
                     /\ pc' = "s_push"
                     /\ UNCHANGED outcome
                ELSE Fail("commit-tree", r, fault)
  /\ UNCHANGED <<localRef, remoteRef, op, prev, opsDone>>
  /\ UNCHANGED <<runVars, libVars>>

SharePush ==
  /\ pc = "s_push"
  /\ \E fault \in Faults :
       LET r == push(remoteRef, lv.newCommit, fault)
       IN  /\ calls' = Append(calls, Call("push", lv.newCommit, r.status = "resolved"))
           /\ remoteRef' \in RemoteAfterPush(r, fault, lv.newCommit)
           /\ IF r.status = "resolved"
                THEN /\ pc' = "s_updateRef"
                     /\ UNCHANGED <<lv, outcome>>
                ELSE Fail("push", r, fault)
  /\ UNCHANGED <<localRef, op, prev, opsDone>>
  /\ UNCHANGED <<runVars, libVars>>

ShareUpdateRef ==
  /\ pc = "s_updateRef"
  /\ \E fault \in Faults :
       LET r == updateRef(lv.newCommit, fault)
       IN  /\ calls' = Append(calls, Call("update-ref", lv.newCommit, r.status = "resolved"))
           /\ localRef' \in LocalAfterUpdateRef(r, fault, lv.newCommit)
           /\ IF r.status = "resolved"
                THEN /\ outcome' = Resolved([message |-> "casefile shared",
                                             commit |-> lv.newCommit])
                     /\ pc' = "idle"
                     /\ UNCHANGED lv
                ELSE Fail("update-ref", r, fault)
  /\ UNCHANGED <<remoteRef, op, prev, opsDone>>
  /\ UNCHANGED <<runVars, libVars>>

-----------------------------------------------------------------------------
(* deleteCasefilePaths(remote, paths) *)

\* paths.indexOf(p) >= 0
inPaths(paths, p) == \E i \in DOMAIN paths : paths[i] = p

\* The keys of the Map built from the requested paths.
DeleteGroups(paths) == {strrpart(paths[i], "/", 2)[1] : i \in DOMAIN paths}

StartDelete ==
  /\ \E paths \in PathLists :
       Begin([kind |-> "delete", path |-> <<>>, bookmarks |-> <<>>, paths |-> paths],
             "d_revParse",
             [LvInit EXCEPT !.groups = [g \in DeleteGroups(paths) |-> None]])
  /\ UNCHANGED <<runVars, libVars>>

\* A rejected rev-parse leaves currentCasefilesTree null and the operation returns.
DeleteRevParse ==
  /\ pc = "d_revParse"
  /\ \E fault \in Faults :
       LET r == revParse(localRef, fault)
       IN  IF r.status = "resolved"
             THEN /\ lv' = [lv EXCEPT !.parentCommits = <<r.value>>,
                                      !.currentCasefilesTree = r.value,
                                      !.tasks = [g \in DOMAIN lv.groups |-> "lsTree"]]
                  /\ pc' = "d_groups"
                  /\ UNCHANGED outcome
           ELSE IF hasAssertError(r)
             THEN /\ lv' = [lv EXCEPT !.failed = @ \cup {"rev-parse"},
                                      !.asserted = TRUE,
                                      !.faulted = TRUE]
                  /\ outcome' = Rejected(r.code)
                  /\ pc' = "idle"
           ELSE /\ lv' = [lv EXCEPT !.currentCasefilesTree = None,
                                    !.caught = @ \cup {"rev-parse"},
                                    !.recovered = @ \cup {r.code},
                                    !.faulted = @ \/ (fault # "none")]
                /\ outcome' = Resolved(None)
                /\ pc' = "idle"
  /\ UNCHANGED <<localRef, remoteRef, op, calls, prev, opsDone>>
  /\ UNCHANGED <<runVars, libVars>>

\* Without a key: Map.prototype.delete
dropKey(f, k) == [g \in (DOMAIN f) \ {k} |-> f[g]]

\* One group's callback, from the settlement of its lsTree to its next await.
DeleteGroupLsTree(group) ==
  /\ pc = "d_groups"
  /\ lv.tasks[group] = "lsTree"
  /\ \E fault \in Faults :
       LET r == lsTree(lv.currentCasefilesTree, group, fault)
           entries == r.value
           remainingEntries ==
             SelectSeq(entries, LAMBDA e : ~inPaths(op.paths, joinPath(group, e.name)))
       IN  /\ outcome' = IF hasAssertError(r) /\ outcome.status = "pending"
                            THEN Rejected(r.code) ELSE outcome
           /\ IF hasAssertError(r)
                \* .catch(err => { throw err }): the callback rejects, and Promise.all
                THEN lv' = [lv EXCEPT !.tasks[group] = "failed",
                                      !.failed = @ \cup {"ls-tree"},
                                      !.asserted = TRUE,
                                      !.faulted = TRUE]
              ELSE IF r.status # "resolved"
                \* .catch(err => null): entries === null, return
                THEN lv' = [lv EXCEPT !.tasks[group] = "done",
                                      !.caught = @ \cup {"ls-tree"},
                                      !.recovered = @ \cup {r.code},
                                      !.faulted = TRUE]
              ELSE IF ~(Len(remainingEntries) < Len(entries))
                THEN lv' = [lv EXCEPT !.tasks[group] = "done",
                                      !.groups = dropKey(@, group)]
              ELSE IF Len(remainingEntries) > 0
                THEN lv' = [lv EXCEPT !.tasks[group] = "mktree",
                                      !.remainingEntries =
                                         [g \in (DOMAIN @) \cup {group} |->
                                            IF g = group THEN remainingEntries ELSE @[g]],
                                      !.foundEntriesToRemove = TRUE]
              ELSE lv' = [lv EXCEPT !.tasks[group] = "done",
                                    !.groups[group] = None,
                                    !.foundEntriesToRemove = TRUE]
  /\ UNCHANGED <<localRef, remoteRef, op, pc, calls, prev, opsDone>>
  /\ UNCHANGED <<runVars, libVars>>

\* The callback's mktree settles; a rejection rejects Promise.all at once.
DeleteGroupMktree(group) ==
  /\ pc = "d_groups"
  /\ lv.tasks[group] = "mktree"
  /\ \E fault \in Faults :
       LET r == mktree(lv.remainingEntries[group], fault)
       IN  /\ calls' = MktreeCalls(r)
           /\ IF r.status = "resolved"
                THEN /\ lv' = [lv EXCEPT !.tasks[group] = "done",
                                         !.groups[group] = r.value]
                     /\ UNCHANGED outcome
                ELSE /\ lv' = [lv EXCEPT !.tasks[group] = "failed",
                                         !.failed = @ \cup {"mktree"},
                                         !.faulted = @ \/ (fault # "none")]
                     /\ outcome' = IF outcome.status = "pending"
                                     THEN Rejected(r.code) ELSE outcome
  /\ UNCHANGED <<localRef, remoteRef, op, pc, prev, opsDone>>
  /\ UNCHANGED <<runVars, libVars>>

\* The callbacks of Promise.all(Array.from(groups.keys(), ...)) run interleaved.
DeleteGroupCallback ==
  \E group \in DOMAIN lv.tasks : DeleteGroupLsTree(group) \/ DeleteGroupMktree(group)

\* Every callback has run to its end: Promise.all has settled.
DeleteGroupsSettled ==
  /\ pc = "d_groups"
  /\ \A g \in DOMAIN lv.tasks : lv.tasks[g] \in {"done", "failed"}
  /\ IF outcome.status # "pending"
       THEN pc' = "idle" /\ UNCHANGED outcome
     ELSE IF ~lv.foundEntriesToRemove
       THEN pc' = "idle" /\ outcome' = Resolved(None)
     ELSE pc' = "d_lsRoot" /\ UNCHANGED outcome
  /\ UNCHANGED <<localRef, remoteRef, op, lv, calls, prev, opsDone>>
  /\ UNCHANGED <<runVars, libVars>>

\* The mutant keeps the entry of a group that the Map associates with null.
RECURSIVE newRootEntriesKeeping(_, _)
newRootEntriesKeeping(rootEntries, groups) ==
  IF rootEntries = <<>> THEN <<>>
  ELSE LET entry == Head(rootEntries)
           rest == newRootEntriesKeeping(Tail(rootEntries), groups)
       IN  IF entry.name \notin DOMAIN groups \/ groups[entry.name] = None
             THEN <<entry>> \o rest
           ELSE <<TreeEntry("040000", "tree", groups[entry.name], entry.name)>> \o rest

\* rootEntries.flatMap(...)
RECURSIVE newRootEntries(_, _)
newRootEntries(rootEntries, groups) ==
  IF rootEntries = <<>> THEN <<>>
  ELSE LET entry == Head(rootEntries)
           rest == newRootEntries(Tail(rootEntries), groups)
       IN  IF entry.name \notin DOMAIN groups THEN <<entry>> \o rest
           ELSE IF groups[entry.name] = None THEN rest
           ELSE <<TreeEntry("040000", "tree", groups[entry.name], entry.name)>> \o rest

DeleteLsRoot ==
  /\ pc = "d_lsRoot"
  /\ \E fault \in Faults :
       LET r == lsTree(lv.currentCasefilesTree, <<>>, fault)
           new == newRootEntries(r.value, lv.groups)
       IN  IF r.status # "resolved" THEN Fail("ls-tree", r, fault)
           ELSE IF Len(new) = 0
             THEN /\ lv' = [lv EXCEPT !.rootTreeEntries = new, !.newCommit = EmptyString]
                  /\ pc' = "d_push"
                  /\ UNCHANGED outcome
           ELSE /\ lv' = [lv EXCEPT !.rootTreeEntries = new]
                /\ pc' = "d_mkRoot"
                /\ UNCHANGED outcome
  /\ UNCHANGED <<localRef, remoteRef, op, calls, prev, opsDone>>
  /\ UNCHANGED <<runVars, libVars>>

DeleteMkRoot ==
  /\ pc = "d_mkRoot"
  /\ \E fault \in Faults :
       LET r == mktree(lv.rootTreeEntries, fault)
       IN  /\ calls' = MktreeCalls(r)
           /\ IF r.status = "resolved"
                THEN /\ lv' = [lv EXCEPT !.newTree = r.value]
                     /\ pc' = "d_commit"
                     /\ UNCHANGED outcome
                ELSE Fail("mktree", r, fault)
  /\ UNCHANGED <<localRef, remoteRef, op, prev, opsDone>>
  /\ UNCHANGED <<runVars, libVars>>

DeleteCommit ==
  /\ pc = "d_commit"
  /\ \E fault \in Faults :
       LET r == commitCasefilesTree(lv.newTree, lv.parentCommits, "Delete casefile(s)", fault)
       IN  /\ calls' = Append(calls, Call("commit-tree", r.value, r.status = "resolved"))
           /\ IF r.status = "resolved"
                THEN /\ lv' = [lv EXCEPT !.newCommit = r.value]
                     /\ pc' = "d_push"
                     /\ UNCHANGED outcome
                ELSE Fail("commit-tree", r, fault)
  /\ UNCHANGED <<localRef, remoteRef, op, prev, opsDone>>
  /\ UNCHANGED <<runVars, libVars>>

DeletePush ==
  /\ pc = "d_push"
  /\ \E fault \in Faults :
       LET r == push(remoteRef, lv.newCommit, fault)
       IN  /\ calls' = Append(calls, Call("push", lv.newCommit, r.status = "resolved"))
           /\ remoteRef' \in RemoteAfterPush(r, fault, lv.newCommit)
           /\ IF r.status = "resolved"
                THEN /\ pc' = "d_updateRef"
                     /\ UNCHANGED <<lv, outcome>>
                ELSE Fail("push", r, fault)
  /\ UNCHANGED <<localRef, op, prev, opsDone>>
  /\ UNCHANGED <<runVars, libVars>>

DeleteUpdateRef ==
  /\ pc = "d_updateRef"
  /\ \E fault \in Faults :
       LET r == updateRef(lv.newCommit, fault)
       IN  /\ calls' = Append(calls, Call("update-ref", lv.newCommit, r.status = "resolved"))
           /\ localRef' \in LocalAfterUpdateRef(r, fault, lv.newCommit)
           /\ IF r.status = "resolved"
                THEN /\ outcome' = Resolved(None)
                     /\ pc' = "idle"
                     /\ UNCHANGED lv
                ELSE Fail("update-ref", r, fault)
  /\ UNCHANGED <<remoteRef, op, prev, opsDone>>
  /\ UNCHANGED <<runVars, libVars>>

-----------------------------------------------------------------------------
(* getCasefile(path) without beforeCommit *)

\* git cat-file blob <ref>:<path>
GitCatFile(rev, path) ==
  LET o == GitObjectAt(rev, path)
  IN  IF o.obj = "blob" THEN [exitCode |-> 0, stdout |-> o.content]
      ELSE [exitCode |-> 128, stdout |-> <<>>]

\* The mutant returns the parsed blob without wrapping a legacy array.
getCasefileNoWrap(path, fault) ==
  LET run == GitCatFile(localRef, path)
      parsed == JSONparse(run.stdout)
  IN  IF fault # "none" THEN Rejected(fault)
      ELSE IF run.exitCode # 0 THEN Rejected("ChildProcessFailure")
      ELSE Resolved([bookmarks |-> parsed.bookmarks, path |-> path])

getCasefile(path, fault) ==
  LET run == GitCatFile(localRef, path)
      parsed == JSONparse(run.stdout)
      casefileData == IF parsed.isArray THEN [bookmarks |-> parsed.items]
                      ELSE [bookmarks |-> parsed.bookmarks]
  IN  IF fault # "none" THEN Rejected(fault)
      ELSE IF run.exitCode # 0 THEN Rejected("ChildProcessFailure")
      ELSE Resolved([bookmarks |-> casefileData.bookmarks, path |-> path])

StartGet ==
  /\ \E path \in CasefilePaths :
       Begin([kind |-> "get", path |-> path, bookmarks |-> <<>>, paths |-> <<>>],
             "g_catFile", LvInit)
  /\ UNCHANGED <<runVars, libVars>>

GetCatFile ==
  /\ pc = "g_catFile"
  /\ \E fault \in Faults :
       LET r == getCasefile(op.path, fault)
       IN  IF r.status = "resolved"
             THEN /\ outcome' = r
                  /\ pc' = "idle"
                  /\ UNCHANGED lv
             ELSE Fail("cat-file", r, fault)
  /\ UNCHANGED <<localRef, remoteRef, op, calls, prev, opsDone>>
  /\ UNCHANGED <<runVars, libVars>>

-----------------------------------------------------------------------------
(* findLatestCommitParentWithPath(path, limitingCommit) *)

\* The number of commits on the first-parent chain of a commit: the model's
\* commit date.
RECURSIVE CommitDate(_)
CommitDate(commit) ==
  IF commit.obj # "commit" THEN 0
  ELSE IF commit.parents = <<>> THEN 1
  ELSE 1 + CommitDate(commit.parents[1])

\* git log -n 1 --pretty=format:%ci <commit> -- <path>: the date of the
\* latest commit in the history of <commit> that changed <path>; no output,
\* which leaves the result 0, when none did.
RECURSIVE GitLogDate(_, _)
GitLogDate(commit, path) ==
  LET here == GitObjectAt(commit, path)
      before == IF commit.parents = <<>> THEN None
                ELSE GitObjectAt(commit.parents[1], path)
  IN  IF here # before THEN CommitDate(commit)
      ELSE IF commit.parents = <<>> THEN 0
      ELSE GitLogDate(commit.parents[1], path)

getDateOfLastChange(path, commit, fault) ==
  IF fault # "none" THEN Rejected(fault)
  ELSE Resolved(GitLogDate(commit, path))

\* git rev-parse <limitingCommit>^@
revParseParents(limitingCommit, fault) ==
  IF fault # "none" THEN Rejected(fault)
  ELSE IF limitingCommit.obj # "commit" THEN Rejected("ChildProcessFailure")
  ELSE Resolved(limitingCommit.parents)

\* The comparison keeping the best yet when the dates are equal.
betterOrEqual(bestYet, newData) ==
  IF bestYet.date >= newData.date THEN bestYet ELSE newData

\* (!newData || bestYet.date > newData.date) ? bestYet : newData
betterOf(bestYet, newData) ==
  IF bestYet.date > newData.date THEN bestYet ELSE newData

StartLatest ==
  /\ \E path \in CasefilePaths :
       Begin([kind |-> "latest", path |-> path, bookmarks |-> <<>>, paths |-> <<>>],
             "l_parents", LvInit)
  /\ UNCHANGED <<runVars, libVars>>

\* rev-parse settles; the date lookups of the parents are started.
LatestParents ==
  /\ pc = "l_parents"
  /\ \E fault \in Faults :
       LET r == revParseParents(localRef, fault)
       IN  IF r.status # "resolved"
             THEN Fail("rev-parse", r, fault)
           ELSE IF r.value = <<>>
             THEN /\ outcome' = Resolved(None)
                  /\ pc' = "idle"
                  /\ UNCHANGED lv
           ELSE /\ lv' = [lv EXCEPT !.parentCommits = r.value]
                /\ pc' = "l_dates"
                /\ UNCHANGED outcome
  /\ UNCHANGED <<localRef, remoteRef, op, calls, prev, opsDone>>
  /\ UNCHANGED <<runVars, libVars>>

\* The date lookup of the parent settles and the reduction ends.
LatestDate ==
  /\ pc = "l_dates"
  /\ \E fault \in Faults :
       LET commit == lv.parentCommits[1]
           r == getDateOfLastChange(op.path, commit, fault)
           start == [commit |-> None, date |-> 0]
       IN  IF r.status = "resolved"
             THEN /\ outcome' = Resolved(betterOf(start, [commit |-> commit,
                                                          date |-> r.value]).commit)
                  /\ pc' = "idle"
                  /\ UNCHANGED lv
           ELSE IF hasAssertError(r)
             THEN /\ lv' = [lv EXCEPT !.failed = @ \cup {"log"},
                                      !.asserted = TRUE,
                                      !.faulted = TRUE]
                  /\ outcome' = Rejected(r.code)
                  /\ pc' = "idle"
           ELSE /\ lv' = [lv EXCEPT !.caught = @ \cup {"log"},
                                    !.recovered = @ \cup {r.code},
                                    !.faulted = TRUE]
                /\ outcome' = Resolved(None)
                /\ pc' = "idle"
  /\ UNCHANGED <<localRef, remoteRef, op, calls, prev, opsDone>>
  /\ UNCHANGED <<runVars, libVars>>

-----------------------------------------------------------------------------
(* CommandRunner: one invocation of the function it returns *)

\* JavaScript values held by closesComplete and passed as exit codes.
JSFalse == [type |-> "boolean", b |-> FALSE, n |-> 0]
JSTrue == [type |-> "boolean", b |-> TRUE, n |-> 0]
JSNull == [type |-> "null", b |-> FALSE, n |-> 0]
JSNum(n) == [type |-> "number", b |-> FALSE, n |-> n]
JSBool(b) == IF b THEN JSTrue ELSE JSFalse
\* An object: the Error a test's consumer throws, and the Error streamifyOutput makes.
TestError == [type |-> "object", b |-> FALSE, n |-> 1]
GenericError == [type |-> "object", b |-> FALSE, n |-> 2]
Truthy(v) ==
  \/ v.type = "boolean" /\ v.b
  \/ v.type = "number" /\ v.n # 0
  \/ v.type = "object"

\* The default of the runner's `timeout` option, in seconds.
DefaultTimeout == 10
\* null (or 0) and a positive number of seconds
Timeouts == {0, DefaultTimeout}
\* A child's exit code; null when a signal ended it.
ExitCodes == {JSNum(0), JSNum(1), JSNull}
ResultModes == {"exit", "makeResult", "result"}

NoInvocation ==
  [active |-> FALSE, stdout |-> FALSE, mode |-> "result", timeout |-> 0]

\* A promise's state.
Settled(p) == p.status # "pending"
SettleAgain(p, with) == with
\* resolve(v) and reject(e) act on a pending promise only.
Settle(p, with) == IF Settled(p) THEN p ELSE with

NoCalls == [exit |-> 0, exitArg |-> JSFalse, makeResult |-> 0,
            consumerThrew |-> FALSE, thrown |-> JSNull]

\* What a function consumer of stdout throws, or rejects its promise with.
ThrownValues == {TestError, JSNull, JSNum(0)}

\* The invocation up to its return: spawn, closesComplete, the handlers, the race.
Invoke ==
  /\ ~rIn.active
  /\ \E captured \in BOOLEAN, mode \in ResultModes, timeout \in Timeouts,
        failSpawn \in BOOLEAN :
       /\ rIn' = [active |-> TRUE, stdout |-> captured, mode |-> mode,
                  timeout |-> timeout]
       /\ IF failSpawn
            THEN /\ invocation' = Rejected("SpawningFailure")
                 /\ child' = [proc |-> "none", stream |-> "none"]
                 /\ timer' = "none"
            ELSE /\ invocation' = Pending
                 /\ child' = [proc |-> "running",
                              stream |-> IF captured THEN "open" ELSE "none"]
                 /\ timer' = IF timeout # 0 THEN "armed" ELSE "none"
       /\ closesComplete' = [stdout |-> JSBool(~captured), process |-> JSFalse]
  /\ execution' = Pending
  /\ cb' = NoCalls
  /\ UNCHANGED <<gitVars, libVars>>

\* Object.values(closesComplete).every(flag => flag !== false)
everyClosed(cc) == cc.stdout # JSFalse /\ cc.process # JSFalse

\* The mutant does not wait for the stdout consumer.
processClosed(cc) == cc.process # JSFalse

allClosesComplete(cc) == everyClosed(cc)

ExitValue(code) == [from |-> "exit", code |-> code]
MakeResultValue == [from |-> "makeResult", code |-> JSNull]
ResultValue == [from |-> "result", code |-> JSNull]

\* The mutant tests the exit code before it looks for `exit`.
stepExitCodeFirst(mode, exitCode) ==
  IF Truthy(exitCode)
    THEN [status |-> "rejected", value |-> exitCode, code |-> "ChildProcessFailure"]
  ELSE IF mode = "exit" THEN Resolved(ExitValue(exitCode))
  ELSE IF mode = "makeResult" THEN Resolved(MakeResultValue)
  ELSE Resolved(ResultValue)

\* What stepExit hands to resolve or reject once every close is complete.
stepExitSettlement(mode, exitCode) ==
  IF mode = "exit" THEN Resolved(ExitValue(exitCode))
  ELSE IF Truthy(exitCode)
    THEN [status |-> "rejected", value |-> exitCode, code |-> "ChildProcessFailure"]
  ELSE IF mode = "makeResult" THEN Resolved(MakeResultValue)
  ELSE Resolved(ResultValue)

\* The callbacks stepExit calls on the way.
stepExitCalls(mode, exitCode) ==
  IF mode = "exit"
    THEN [cb EXCEPT !.exit = @ + 1, !.exitArg = exitCode]
  ELSE IF ~Truthy(exitCode) /\ mode = "makeResult"
    THEN [cb EXCEPT !.makeResult = @ + 1]
  ELSE cb

\* stepExit() with closesComplete as just updated; the race follows executionPromise.
stepExit(cc) ==
  IF allClosesComplete(cc)
    THEN /\ cb' = stepExitCalls(rIn.mode, cc.process)
         /\ execution' = Settle(execution, stepExitSettlement(rIn.mode, cc.process))
         /\ invocation' = Settle(invocation,
                                 Settle(execution, stepExitSettlement(rIn.mode, cc.process)))
    ELSE UNCHANGED <<cb, execution, invocation>>

\* The stdout consumer stream emits 'close': the output ended, the consumer
\* called its stop callback, or the stream was destroyed by an error.
StdoutClose ==
  /\ child.stream \in {"open", "errored"}
  /\ child' = [child EXCEPT !.stream = "closed"]
  /\ closesComplete' = [closesComplete EXCEPT !.stdout = JSTrue]
  /\ stepExit(closesComplete')
  /\ UNCHANGED <<rIn, timer>>
  /\ UNCHANGED <<gitVars, libVars>>

\* The mutant hands the caught value to done() as it is.
passErrorAsThrown(e) == e

\* passError = e || new Error('failure while processing stdout data')
passError(e) == IF Truthy(e) THEN e ELSE GenericError

\* The function consumer threw, or rejected, on a chunk: write's done(passError)
\* makes the stream emit 'error', and the pipe's handler rejects.
StdoutError ==
  /\ child.stream = "open"
  /\ \E e \in ThrownValues :
       /\ cb' = [cb EXCEPT !.consumerThrew = TRUE, !.thrown = e]
       /\ IF Truthy(passError(e))
            THEN LET err == [status |-> "rejected", value |-> passError(e),
                             code |-> "ConsumerError"]
                 IN  /\ child' = [child EXCEPT !.stream = "errored"]
                     /\ execution' = Settle(execution, err)
                     /\ invocation' = Settle(invocation, err)
            ELSE UNCHANGED <<child, execution, invocation>>
  /\ UNCHANGED <<rIn, closesComplete, timer>>
  /\ UNCHANGED <<gitVars, libVars>>

\* childProc emits 'exit'
ChildExit ==
  /\ child.proc = "running"
  /\ \E code \in ExitCodes :
       /\ closesComplete' = [closesComplete EXCEPT !.process = code]
       /\ stepExit(closesComplete')
  /\ child' = [child EXCEPT !.proc = "exited"]
  /\ UNCHANGED <<rIn, timer>>
  /\ UNCHANGED <<gitVars, libVars>>

\* childProc emits 'error'
ChildError ==
  /\ child.proc = "running"
  /\ child' = [child EXCEPT !.proc = "failed"]
  /\ execution' = Settle(execution, Rejected("ChildError"))
  /\ invocation' = Settle(invocation, Rejected("ChildError"))
  /\ UNCHANGED <<rIn, closesComplete, timer, cb>>
  /\ UNCHANGED <<gitVars, libVars>>

\* The mutant kills the child when the timer fires.
timeoutElapsedKilling(c) == [c EXCEPT !.proc = "killed"]

\* What the timer's callback does to the child: nothing.
timeoutElapsed(c) == c

\* Promise.race: the timer's rejection settles the returned promise if pending.
raceTimeout(inv) == Settle(inv, Rejected("Timeout"))

\* setTimeout's callback runs: timeoutPromise rejects.
TimerFires ==
  /\ timer = "armed"
  /\ timer' = "fired"
  /\ invocation' = raceTimeout(invocation)
  /\ child' = timeoutElapsed(child)
  /\ UNCHANGED <<rIn, closesComplete, execution, cb>>
  /\ UNCHANGED <<gitVars, libVars>>

-----------------------------------------------------------------------------
(* SeparatedRecordConsumer *)

\* Characters of the streams' input; NUL stands for the character '\0'.
CR == "\r"
LF == "\n"
NUL == "NUL"

\* Longest input written to a stream, and the latest record at which a
\* handler calls the stop callback it is given.
MaxInputLen == 3
MaxStopAt == 2

\* String.prototype.indexOf(separator, startPosition), 0-based, -1 when absent.
indexOf(input, separator, startPosition) ==
  LET hits == {i \in startPosition..(Len(input) - Len(separator)) :
                 slice(input, i, i + Len(separator)) = separator}
  IN  IF hits = {} THEN -1 ELSE CHOOSE i \in hits : \A j \in hits : i <= j

\* /\r?\n|\r/
ENDL_PATTERN == [type |-> "object", source |-> "ENDL"]
NulSeparator == [type |-> "string", text |-> <<NUL>>]
Separators == {NulSeparator, ENDL_PATTERN}

\* ENDL_PATTERN[Symbol.match](input): the leftmost match; at that position
\* the alternative \r?\n is tried before \r.
NoMatch == [index |-> -1, length |-> 0]
matchENDL(input) ==
  LET hits == {i \in 1..Len(input) : input[i] \in {CR, LF}}
  IN  IF hits = {}
        THEN NoMatch
        ELSE LET i == CHOOSE h \in hits : \A j \in hits : h <= j
             IN  [index |-> i - 1,
                  length |-> IF input[i] = CR /\ i < Len(input) /\ input[i + 1] = LF
                               THEN 2 ELSE 1]

\* The finder createSeparatorFinder(separator) returns, applied to
\* (input, startPosition); SepNull is its null.
SepNull == [start |-> -1, length |-> 0]
createSeparatorFinder(separator, input, startPosition) ==
  IF separator.type = "string"
    THEN LET position == indexOf(input, separator.text, startPosition)
         IN  IF position = -1
               THEN SepNull
               ELSE [start |-> position, length |-> Len(separator.text)]
    ELSE LET match == matchENDL(slice(input, startPosition, Len(input)))
         IN  IF match = NoMatch
               THEN SepNull
               ELSE [start |-> match.index + startPosition, length |-> match.length]

\* A stream built with new SeparatedRecordConsumer(separator), whose 'record'
\* handler calls the stop callback at record number stopAt (never when 0).
\* records are the 'record' events emitted; seps the separators matched
\* before each next record; flushed whether _final emitted the carryover.
SrcNew(separator, input, stopAt) ==
  [separator |-> separator, pending |-> input, consumed |-> <<>>,
   carryover |-> <<>>, records |-> <<>>, seps |-> <<>>, flushed |-> FALSE,
   destroyed |-> FALSE, ended |-> FALSE, stopAt |-> stopAt, stoppedAt |-> 0]

\* this.emit('record', record, stop): the handler runs synchronously, and
\* calls stop, when it is given one, at its stopAt-th record.  stop
\* destroys the stream.
emitRecord(s, record, withStop) ==
  LET n == Len(s.records) + 1
      stops == withStop /\ n = s.stopAt
  IN  [s EXCEPT !.records = Append(@, record),
                !.destroyed = @ \/ stops,
                !.stoppedAt = IF stops THEN n ELSE @]

workingWithoutCarryover(carryover, chunk) == chunk

\* const working = this._carryover + chunk
workingOf(carryover, chunk) == carryover \o chunk

\* The for loop of _write.  The stop callback assigns iterStart =
\* working.length inside the body; the loop's update expression
\* iterStart = sepPos.start + sepPos.length runs after the body and
\* assigns it again.
RECURSIVE writeLoop(_, _, _)
writeLoop(s, working, iterStart) ==
  LET sepPos == createSeparatorFinder(s.separator, working, iterStart)
  IN  IF sepPos = SepNull
        THEN [s EXCEPT !.carryover = slice(working, iterStart, Len(working))]
        ELSE LET emitted == emitRecord(s, slice(working, iterStart, sepPos.start), TRUE)
                 stopped == emitted.stoppedAt # s.stoppedAt
                 afterBody == IF stopped THEN Len(working) ELSE iterStart
                 afterUpdate == sepPos.start + sepPos.length
             IN  writeLoop([emitted EXCEPT !.seps =
                              Append(@, slice(working, sepPos.start, afterUpdate))],
                           working, afterUpdate)

\* stream.write(chunk): _write is not called on a destroyed stream.
write(s, chunk) ==
  IF s.destroyed
    THEN s
    ELSE writeLoop([s EXCEPT !.consumed = @ \o chunk],
                   workingOf(s.carryover, chunk), 0)

\* stream.end(): _final is not called on a destroyed stream.
final(s) ==
  IF s.destroyed
    THEN [s EXCEPT !.ended = TRUE]
    ELSE IF s.carryover # <<>>
           THEN [emitRecord(s, s.carryover, FALSE)
                   EXCEPT !.carryover = <<>>, !.flushed = TRUE, !.ended = TRUE]
           ELSE [s EXCEPT !.ended = TRUE]

\* The source piped into the stream writes the next chunk of its data.
SrcWrite ==
  /\ ~src.ended
  /\ \E n \in 1..Len(src.pending) :
       src' = write([src EXCEPT !.pending = slice(@, n, Len(@))],
                    slice(src.pending, 0, n))
  /\ UNCHANGED notSrc

\* The source has no more data and ends the stream.
SrcEnd ==
  /\ ~src.ended
  /\ src.pending = <<>>
  /\ src' = final(src)
  /\ UNCHANGED notSrc

RECURSIVE StringsUpTo(_, _)
StringsUpTo(alphabet, n) ==
  IF n = 0
    THEN {<<>>}
    ELSE LET shorter == StringsUpTo(alphabet, n - 1)
         IN  shorter \cup {Append(t, c) : t \in shorter, c \in alphabet}

SrcInputs == StringsUpTo({"a", CR, LF, NUL}, MaxInputLen)

SrcIdle == src = SrcNew(NulSeparator, <<>>, 0)

-----------------------------------------------------------------------------
(* Janitor *)

\* Most tasks one Janitor is given, and most cleanUps run on it.
MaxTasks == 2
MaxCleanUps == 2

\* Values a task throws or rejects with: an Error object (one per task,
\* identified by the task), null, undefined, or a primitive string.
\* task is the task attached to an object (0: none); code and errors are
\* set on the errors the Janitor builds.
JanValue(type, id) ==
  [type |-> type, id |-> id, task |-> 0, code |-> "", errors |-> <<>>]
JanErrorTypes == {"object", "null", "undefined", "string"}

\* A task: called, it returns, throws value, or returns a promise rejected
\* with value.
JanTask(id, kind, type) ==
  [id |-> id, kind |-> kind, value |-> JanValue(type, id)]
JanTaskKinds == {"ok", "throw", "reject"}

\* TypeError: Cannot create property 'task' on string (class bodies and
\* modules are strict code).
JanTypeError == [JanValue("object", 0) EXCEPT !.code = "TypeError"]

Returned == [status |-> "returned", value |-> JanValue("undefined", 0)]
Thrown(v) == [status |-> "thrown", value |-> v]

\* e != null (loose equality)
notNullish(e) == e.type \notin {"null", "undefined"}

\* e.task = task
setTask(e, task) ==
  IF e.type = "object" THEN Thrown([e EXCEPT !.task = task.id]) ELSE Thrown(JanTypeError)

_handleErrors(errors) ==
  IF Len(errors) = 0
    THEN Returned
    ELSE IF Len(errors) = 1
           THEN Thrown(errors[1])
           ELSE Thrown([JanValue("object", 0) EXCEPT
                          !.code = "MultipleCleanupErrors", !.errors = errors])

\* The while loop of cleanUpSync over the copied tasks: [called, outcome].
RECURSIVE cleanUpSyncLoop(_, _, _)
cleanUpSyncLoop(tasks, called, errors) ==
  IF tasks = <<>>
    THEN [called |-> called, outcome |-> _handleErrors(errors)]
    ELSE LET task == tasks[Len(tasks)]
             rest == SubSeq(tasks, 1, Len(tasks) - 1)
             calledNow == Append(called, task.id)
         IN  IF task.kind # "throw"
               THEN cleanUpSyncLoop(rest, calledNow, errors)
               ELSE IF notNullish(task.value)
                      THEN LET assigned == setTask(task.value, task)
                           IN  IF assigned.value = JanTypeError
                                 THEN [called |-> calledNow, outcome |-> assigned]
                                 ELSE cleanUpSyncLoop(rest, calledNow,
                                                      Append(errors, assigned.value))
                      ELSE cleanUpSyncLoop(rest, calledNow, Append(errors, task.value))

cleanUpSync(tasks) == cleanUpSyncLoop(tasks, <<>>, <<>>)

\* tasks.map(t => t()): the tasks are called in order; a task that throws
\* ends the map, and the async function rejects with the thrown value.
RECURSIVE mapCallTasks(_, _, _)
mapCallTasks(tasks, i, called) ==
  IF i > Len(tasks)
    THEN [called |-> called, outcome |-> Returned]
    ELSE IF tasks[i].kind = "throw"
           THEN [called |-> Append(called, tasks[i].id), outcome |-> Thrown(tasks[i].value)]
           ELSE mapCallTasks(tasks, i + 1, Append(called, tasks[i].id))

\* The flatMap over the results of Promise.allSettled: [errors, outcome].
RECURSIVE flatMapReasons(_, _, _)
flatMapReasons(tasks, i, errors) ==
  IF i > Len(tasks)
    THEN _handleErrors(errors)
    ELSE IF tasks[i].kind # "reject" \/ ~notNullish(tasks[i].value)
           THEN flatMapReasons(tasks, i + 1, errors)
           ELSE LET assigned == setTask(tasks[i].value, tasks[i])
                IN  IF assigned.value = JanTypeError
                      THEN assigned
                      ELSE flatMapReasons(tasks, i + 1, Append(errors, assigned.value))

cleanUpAsync(tasks) ==
  LET mapped == mapCallTasks(tasks, 1, <<>>)
  IN  IF mapped.outcome # Returned
        THEN mapped
        ELSE [called |-> mapped.called, outcome |-> flatMapReasons(tasks, 1, <<>>)]

JanNew ==
  [tasks |-> <<>>, added |-> 0, cleanUps |-> 0, phase |-> "collecting",
   last |-> [mode |-> "none", tasks |-> <<>>, called |-> <<>>, outcome |-> Returned]]

addTask ==
  /\ jan.added < MaxTasks
  /\ \E kind \in JanTaskKinds, type \in JanErrorTypes :
       /\ kind = "ok" => type = "undefined"
       /\ jan' = [jan EXCEPT !.tasks = Append(@, JanTask(jan.added + 1, kind, type)),
                             !.added = @ + 1,
                             !.phase = "collecting"]
  /\ UNCHANGED notJan

JanCleanUp(mode, run) ==
  /\ jan.cleanUps < MaxCleanUps
  /\ jan' = [jan EXCEPT !.tasks = <<>>,
                        !.cleanUps = @ + 1,
                        !.phase = "cleaned",
                        !.last = [mode |-> mode, tasks |-> jan.tasks,
                                  called |-> run.called, outcome |-> run.outcome]]
  /\ UNCHANGED notJan

JanCleanUpSync == JanCleanUp("sync", cleanUpSync(jan.tasks))

JanCleanUpAsync == JanCleanUp("async", cleanUpAsync(jan.tasks))

JanIdle == jan = JanNew

-----------------------------------------------------------------------------
(* DiffInteraction.getHunks *)

\* Most lines the diff command prints.
MaxLines == 2

DigitChars == <<"0", "1", "2", "3", "4", "5", "6", "7", "8", "9">>
Digits == Range(DigitChars)
WhiteSpace == {" ", "\t"}

\* Decimal numeral of a number below 100, as diff prints it.
Numeral(n) ==
  IF n < 10
    THEN <<DigitChars[n + 1]>>
    ELSE <<DigitChars[(n \div 10) + 1], DigitChars[(n % 10) + 1]>>

\* A line of the output of diff -U0: a hunk header `@@ -S[,L] +T[,M] @@`
\* (L, M = -1: count not printed), or any other line.
HeaderLine(S, L, T, M) == [kind |-> "header", S |-> S, L |-> L, T |-> T, M |-> M, text |-> <<>>]
TextLine(text) == [kind |-> "text", S |-> 0, L |-> 0, T |-> 0, M |-> 0, text |-> text]

printedRange(n, count) == Numeral(n) \o (IF count < 0 THEN <<>> ELSE <<",">> \o Numeral(count))

printedLine(line) ==
  IF line.kind = "header"
    THEN <<"@", "@", " ", "-">> \o printedRange(line.S, line.L) \o <<" ", "+">>
           \o printedRange(line.T, line.M) \o <<" ", "@", "@">>
    ELSE line.text

HeaderLines ==
  {HeaderLine(S, L, 3, M) : S \in {0, 12}, L \in {-1, 0, 2}, M \in {-1, 0, 2}}
TextLines ==
  {TextLine(<<"-", "-", "-", " ", "a">>),
   TextLine(<<"+", "@", "@", " ", "-", "1", " ", "+", "1", " ", "@", "@">>)}
DiffLines == HeaderLines \cup TextLines

RECURSIVE LinesUpTo(_)
LinesUpTo(n) ==
  IF n = 0
    THEN {<<>>}
    ELSE LET shorter == LinesUpTo(n - 1)
         IN  shorter \cup {Append(t, l) : t \in shorter, l \in DiffLines}

\* What diff writes to stdout: every line ended by a line feed.
RECURSIVE stdoutText(_)
stdoutText(lines) ==
  IF lines = <<>> THEN <<>> ELSE printedLine(Head(lines)) \o <<LF>> \o stdoutText(Tail(lines))

charAt(s, i) == IF i \in DOMAIN s THEN s[i] ELSE ""

\* First index from i on whose character is outside set.
RECURSIVE skipChars(_, _, _)
skipChars(s, i, set) ==
  IF i <= Len(s) /\ s[i] \in set THEN skipChars(s, i + 1, set) ELSE i

\* (?:,(\d+))? tried at index i: the group captured (<<>>: undefined) and
\* the index after it.
optionalCount(s, i) ==
  LET j == skipChars(s, i + 1, Digits)
  IN  IF charAt(s, i) = "," /\ j > i + 1
        THEN [part |-> SubSeq(s, i + 1, j - 1), next |-> j]
        ELSE [part |-> <<>>, next |-> i]

\* hunkMapping.exec(line) for /^@@\s*-?(\d+)(?:,(\d+))?\s+\+?(\d+)(?:,(\d+))?/
NoParts == [matched |-> FALSE, p1 |-> <<>>, p2 |-> <<>>, p3 |-> <<>>, p4 |-> <<>>]
hunkMappingExec(line) ==
  IF ~(charAt(line, 1) = "@" /\ charAt(line, 2) = "@")
    THEN NoParts
    ELSE LET a == skipChars(line, 3, WhiteSpace)
             b == IF charAt(line, a) = "-" THEN a + 1 ELSE a
             c == skipChars(line, b, Digits)
             g2 == optionalCount(line, c)
             d == skipChars(line, g2.next, WhiteSpace)
             e == IF charAt(line, d) = "+" THEN d + 1 ELSE d
             f == skipChars(line, e, Digits)
             g4 == optionalCount(line, f)
         IN  IF c = b \/ d = g2.next \/ f = e
               THEN NoParts
               ELSE [matched |-> TRUE, p1 |-> SubSeq(line, b, c - 1), p2 |-> g2.part,
                     p3 |-> SubSeq(line, e, f - 1), p4 |-> g4.part]

digitValue(ch) == (CHOOSE i \in DOMAIN DigitChars : DigitChars[i] = ch) - 1

\* parseInt of a string of decimal digits
RECURSIVE parseInt(_)
parseInt(digits) ==
  IF Len(digits) = 1
    THEN digitValue(digits[1])
    ELSE parseInt(SubSeq(digits, 1, Len(digits) - 1)) * 10 + digitValue(digits[Len(digits)])

\* part || "1"
orOne(part) == IF part = <<>> THEN <<"1">> ELSE part

rangeUnadjusted(start, count) ==
  [start |-> parseInt(start), end |-> parseInt(start) + parseInt(orOne(count))]

\* The start and end the handler gives one side of a hunk.
rangeOf(start, count) ==
  IF count = <<"0">>
    THEN [start |-> parseInt(start) + 1, end |-> parseInt(start) + 1]
    ELSE [start |-> parseInt(start), end |-> parseInt(start) + parseInt(orOne(count))]

\* The 'record' handler of getHunks.
onRecord(hunks, line) ==
  LET parts == hunkMappingExec(line)
  IN  IF ~parts.matched
        THEN hunks
        ELSE LET base == rangeOf(parts.p1, parts.p2)
                 current == rangeOf(parts.p3, parts.p4)
             IN  Append(hunks, [baseStart |-> base.start, baseEnd |-> base.end,
                                currentStart |-> current.start, currentEnd |-> current.end])

RECURSIVE onRecords(_, _)
onRecords(hunks, records) ==
  IF records = <<>> THEN hunks ELSE onRecords(onRecord(hunks, Head(records)), Tail(records))

\* The hunks collected from the command's stdout, split into records by
\* new SeparatedRecordConsumer(ENDL_PATTERN).
hunksOf(text) ==
  onRecords(<<>>, final(write(SrcNew(ENDL_PATTERN, <<>>, 0), text)).records)

\* The content arguments of getHunks: {path}, {immediate}, or neither.
ContentKinds == {"path", "immediate", "emptyImmediate", "bad"}

\* The content arguments: {path: 'f'}, {immediate: 'text'}, {immediate: ''}
\* and {}.  A property is a string, as a sequence of tokens, or undefined.
StringValue(text) == [type |-> "string", text |-> text]
UndefinedValue == [type |-> "undefined", text |-> <<>>]
contentOf(kind) ==
  IF kind = "path"
    THEN [path |-> StringValue(<<"f">>), immediate |-> UndefinedValue]
  ELSE IF kind = "immediate"
    THEN [path |-> UndefinedValue, immediate |-> StringValue(<<"text">>)]
  ELSE IF kind = "emptyImmediate"
    THEN [path |-> UndefinedValue, immediate |-> StringValue(<<>>)]
  ELSE [path |-> UndefinedValue, immediate |-> UndefinedValue]

\* if (value): undefined and the empty string are falsy.
truthyValue(v) == v.type = "string" /\ v.text # <<>>

NoResult == [status |-> "pending", code |-> "", hunks |-> <<>>]

DhNew(baseContent, currentContent, output) ==
  [content |-> <<baseContent, currentContent>>,
   output |-> output,
   pc |-> "idle",
   paths |-> <<"none", "none">>,
   files |-> {},
   tasks |-> <<>>,
   cleaning |-> <<>>,
   result |-> NoResult]

\* _getPath up to its first await or its return.
_getPath(content) ==
  IF truthyValue(contentOf(content).path) THEN "resolved"
  ELSE IF truthyValue(contentOf(content).immediate) THEN "writing"
  ELSE "UnknownContentType"

\* getHunks is called: both _getPath calls are made by the map.
GetHunks ==
  /\ dh.pc = "idle"
  /\ dh' = [dh EXCEPT !.pc = "paths",
                      !.paths = <<_getPath(dh.content[1]), _getPath(dh.content[2])>>]
  /\ UNCHANGED notDh

\* temporaryWrite settles for argument i: the file exists and its removal
\* is added to the janitor, or the write failed.
TemporaryWriteSettles ==
  /\ \E i \in 1..2, written \in BOOLEAN :
       /\ dh.paths[i] = "writing"
       /\ IF written
            THEN dh' = [dh EXCEPT !.paths[i] = "resolved",
                                  !.files = @ \cup {i},
                                  !.tasks = Append(@, JanTask(i, "ok", "undefined"))]
            ELSE dh' = [dh EXCEPT !.paths[i] = "WriteFailed"]
  /\ UNCHANGED notDh

PathRejections == {"UnknownContentType", "WriteFailed"}

\* await Promise.all(...): rejected as soon as one _getPath has rejected,
\* fulfilled when both have resolved.
PathsSettled ==
  /\ dh.pc = "paths"
  /\ \/ \E i \in 1..2 :
          /\ dh.paths[i] \in PathRejections
          /\ dh' = [dh EXCEPT !.pc = "finally",
                              !.result = [status |-> "rejected", code |-> dh.paths[i],
                                          hunks |-> <<>>]]
     \/ /\ \A i \in 1..2 : dh.paths[i] = "resolved"
        /\ dh' = [dh EXCEPT !.pc = "diff"]
  /\ UNCHANGED notDh

\* The exit callback given to runDiffCommand.
exit(exitCode, hunks) ==
  IF exitCode = 0 \/ exitCode = 1
    THEN [status |-> "fulfilled", code |-> "", hunks |-> hunks]
    ELSE [status |-> "rejected", code |-> "DiffFailure", hunks |-> <<>>]

\* await this.runDiffCommand(...)
RunDiff ==
  /\ dh.pc = "diff"
  /\ \E exitCode \in 0..2, fault \in Faults :
       dh' = [dh EXCEPT !.pc = "finally",
                        !.result = IF fault = "none"
                                     THEN exit(exitCode, hunksOf(stdoutText(dh.output)))
                                     ELSE [status |-> "rejected", code |-> fault,
                                           hunks |-> <<>>]]
  /\ UNCHANGED notDh

\* finally: janitor.cleanUpAsync() copies and empties the tasks and calls
\* them all.
CleanUpStart ==
  /\ dh.pc = "finally"
  /\ dh' = [dh EXCEPT !.pc = "cleaning", !.cleaning = dh.tasks, !.tasks = <<>>]
  /\ UNCHANGED notDh

\* The removals have settled; getHunks settles.
CleanUpSettled ==
  /\ dh.pc = "cleaning"
  /\ LET run == cleanUpAsync(dh.cleaning)
     IN  dh' = [dh EXCEPT !.pc = "done",
                          !.cleaning = <<>>,
                          !.files = @ \ Range(run.called)]
  /\ UNCHANGED notDh

DhIdle == dh = DhNew("path", "path", <<>>)

-----------------------------------------------------------------------------
(* BookmarkFacilitator.currentLocation *)

UNTRACKED_WINDOW_SIZE == 15

\* Lines of the longest file a bookmark is located in.
MaxFileLines == 18

\* The marked text, and the file whose rows in marks hold it: at column 1
\* on even rows, at columns 2 and 3 on odd rows; every third other row is
\* empty.
MarkText == <<"m">>
FileWith(marks) ==
  [i \in 1..MaxFileLines |->
     IF i \in marks
       THEN (IF i % 2 = 0 THEN <<"m">> ELSE <<"x", "m", "m">>)
       ELSE (IF i % 3 = 0 THEN <<>> ELSE <<"x">>)]

\* editBuffer.lineText(i); <<>> also stands for undefined.
lineText(file, i) == IF i \in DOMAIN file THEN file[i] ELSE <<>>

rowHasText(file, text, i) ==
  lineText(file, i) # <<>> /\ indexOf(lineText(file, i), text, 0) >= 0

BmPending == [status |-> "pending", line |-> 0, col |-> 0, code |-> ""]

\* reject settling the promise whatever its state.
BmRejectAgain(result, code) ==
  [status |-> "rejected", line |-> 0, col |-> 0, code |-> code]

\* resolve / reject of the promise currentLocation returns: the first
\* settlement stands.
BmResolve(result, file, text, i) ==
  IF result.status = "pending"
    THEN [status |-> "resolved", line |-> i,
          col |-> indexOf(lineText(file, i), text, 0) + 1, code |-> ""]
    ELSE result

BmReject(result, code) ==
  IF result.status = "pending"
    THEN [status |-> "rejected", line |-> 0, col |-> 0, code |-> code]
    ELSE result

\* The first of rows that findAndReportTextInRow reports; 0 when none
\* does.  A row of 0 in rows is a row the search skips.
findFirst(file, text, rows) ==
  LET hits == {k \in DOMAIN rows : rows[k] # 0 /\ rowHasText(file, text, rows[k])}
  IN  IF hits = {} THEN 0 ELSE rows[CHOOSE k \in hits : \A j \in hits : k <= j]

onlyTheLine(line) == <<line>>

windowRowsMinusFirst(line) ==
  [k \in 1..(2 * UNTRACKED_WINDOW_SIZE + 1) |->
     IF k = 1 THEN line
     ELSE IF k % 2 = 1
            THEN line + (k \div 2)
            ELSE IF line - (k \div 2) > 0 THEN line - (k \div 2) ELSE 0]

\* The rows reportMarkLocationWithoutTracking tries, in order: line, then
\* line + i and line - i for i = 1 .. UNTRACKED_WINDOW_SIZE.
windowRows(line) ==
  [k \in 1..(2 * UNTRACKED_WINDOW_SIZE + 1) |->
     IF k = 1 THEN line
     ELSE IF k % 2 = 0
            THEN line + (k \div 2)
            ELSE IF line - (k \div 2) > 0 THEN line - (k \div 2) ELSE 0]

reportMarkLocationWithoutTracking(result, file, text, line) ==
  LET found == findFirst(file, text, windowRows(line))
  IN  IF found = 0 THEN result ELSE BmResolve(result, file, text, found)

rangeRowsPrimeOnly(range) == <<IF range.prime > 0 THEN range.prime ELSE 0>>

\* The rows the handler of computeCurrentLineRange's result tries: prime,
\* then prime - i (when not before start) and prime + i (when before end).
Max(a, b) == IF a >= b THEN a ELSE b
rangeRows(range) ==
  LET iLimit == Max(range.prime - range.start, range.end - range.prime)
  IN  [k \in 1..(2 * Max(iLimit, 0) + 1) |->
         IF k = 1 THEN (IF range.prime > 0 THEN range.prime ELSE 0)
         ELSE IF k % 2 = 0
                THEN (IF range.start <= range.prime - (k \div 2) /\ range.prime - (k \div 2) > 0
                        THEN range.prime - (k \div 2) ELSE 0)
                ELSE (IF range.prime + (k \div 2) < range.end
                        THEN range.prime + (k \div 2) ELSE 0)]

Hunk(baseStart, baseEnd, currentStart, currentEnd) ==
  [baseStart |-> baseStart, baseEnd |-> baseEnd,
   currentStart |-> currentStart, currentEnd |-> currentEnd]

\* The loop with the offset of the hunks passed left out.
RECURSIVE lineRangeWithoutOffset(_, _, _)
lineRangeWithoutOffset(line, hunks, currentOffset) ==
  IF hunks = <<>>
    THEN [start |-> line, prime |-> line, end |-> line + 1]
    ELSE LET hunk == Head(hunks)
         IN  IF line < hunk.baseStart
               THEN [start |-> line, prime |-> line, end |-> line + 1]
               ELSE IF hunk.baseStart <= line /\ line < hunk.baseEnd
                 THEN [start |-> hunk.currentStart,
                       prime |-> hunk.currentStart
                                   + (((line - hunk.baseStart)
                                         * (hunk.currentEnd - hunk.currentStart))
                                        \div (hunk.baseEnd - hunk.baseStart)),
                       end |-> hunk.currentEnd]
                 ELSE IF hunk.baseStart = line
                   THEN [start |-> hunk.currentStart,
                         prime |-> (hunk.currentStart + hunk.currentEnd) \div 2,
                         end |-> hunk.currentEnd]
                   ELSE lineRangeWithoutOffset(line, Tail(hunks), 0)

\* The loop of computeCurrentLineRange over the hunks.
RECURSIVE lineRangeFrom(_, _, _)
lineRangeFrom(line, hunks, currentOffset) ==
  IF hunks = <<>>
    THEN [start |-> line + currentOffset, prime |-> line + currentOffset,
          end |-> line + currentOffset + 1]
    ELSE LET hunk == Head(hunks)
         IN  IF line < hunk.baseStart
               THEN [start |-> line + currentOffset, prime |-> line + currentOffset,
                     end |-> line + currentOffset + 1]
               ELSE IF hunk.baseStart <= line /\ line < hunk.baseEnd
                 THEN [start |-> hunk.currentStart,
                       prime |-> hunk.currentStart
                                   + (((line - hunk.baseStart)
                                         * (hunk.currentEnd - hunk.currentStart))
                                        \div (hunk.baseEnd - hunk.baseStart)),
                       end |-> hunk.currentEnd]
               ELSE IF hunk.baseStart = line
                 THEN [start |-> hunk.currentStart,
                       prime |-> (hunk.currentStart + hunk.currentEnd) \div 2,
                       end |-> hunk.currentEnd]
               ELSE lineRangeFrom(line, Tail(hunks), hunk.currentEnd - hunk.baseEnd)

\* computeCurrentLineRange, given how liveContent, getBlobContent and
\* getHunks settled: a failure of any of them gives the line itself.
computeCurrentLineRange(line, failed, hunks) ==
  IF failed
    THEN [start |-> line, prime |-> line, end |-> line + 1]
    ELSE lineRangeFrom(line, hunks, 0)

\* Rejections of the git and diff operations, and the outcomes of the
\* blame lookup (findCurrentLinePosition).
BmErrors == {"LineNotFound", "SpawnFailure", "OtherError"}
BlameLines == 1..MaxFileLines
PegLines == {2, 6}
\* The lines of the bookmarks that carry a peg.
PeggedBookmarkLines == {1, 7}
HunkLists ==
  {<<>>,
   <<Hunk(2, 3, 2, 5)>>,
   <<Hunk(6, 6, 6, 8)>>,
   <<Hunk(1, 2, 1, 1), Hunk(8, 9, 7, 8)>>}

\* peg = 0: the bookmark has no peg; otherwise the peg's line.  blame is
\* the line the blame lookup resolved with (0: it has not, or it rejected),
\* range what computeCurrentLineRange resolved with.
NoRange == [start |-> 0, prime |-> 0, end |-> 0]
BmNew(marks, line, peg) ==
  [file |-> FileWith(marks), marks |-> marks, line |-> line, peg |-> peg,
   pc |-> "idle", logged |-> {}, blame |-> 0, range |-> NoRange,
   result |-> BmPending]

neverReject(result) == result

\* reject(new MarkNotFound(...)) closing both paths of currentLocation.
rejectMarkNotFound(result) == BmReject(result, "MarkNotFound")

\* The edit buffer is open.  Without a peg the executor searches around the
\* bookmark's line and rejects; with a peg it starts the blame lookup.
BmOpen ==
  /\ bm.pc = "idle"
  /\ IF bm.peg = 0
       THEN bm' = [bm EXCEPT
                     !.pc = "done",
                     !.result = rejectMarkNotFound(
                                  reportMarkLocationWithoutTracking(
                                    bm.result, bm.file, MarkText, bm.line))]
       ELSE bm' = [bm EXCEPT !.pc = "blame"]
  /\ UNCHANGED notBm

\* retrieveBlameMatchLine settles; its then and the first catch run.
BlameSettles ==
  /\ bm.pc = "blame"
  /\ \/ \E line \in BlameLines :
          IF rowHasText(bm.file, MarkText, line)
            THEN bm' = [bm EXCEPT
                          !.pc = "done",
                          !.blame = line,
                          !.result = rejectMarkNotFound(
                                       BmResolve(bm.result, bm.file, MarkText, line))]
            ELSE bm' = [bm EXCEPT !.pc = "range",
                                  !.blame = line,
                                  !.logged = @ \cup {"warn: blame was wrong"}]
     \/ \E e \in BmErrors :
          bm' = [bm EXCEPT !.pc = "range",
                           !.logged = IF e # "LineNotFound" THEN @ \cup {e} ELSE @]
  /\ UNCHANGED notBm

\* computeCurrentLineRange settles; its then, the second catch and the
\* finally run.
RangeSettles ==
  /\ bm.pc = "range"
  /\ \E failure \in BmErrors \cup {"none"}, hunks \in HunkLists :
       LET range == computeCurrentLineRange(bm.peg, failure # "none", hunks)
           found == findFirst(bm.file, MarkText, rangeRows(range))
           searched == IF found # 0
                         THEN BmResolve(bm.result, bm.file, MarkText, found)
                         ELSE reportMarkLocationWithoutTracking(
                                bm.result, bm.file, MarkText, bm.line)
       IN  bm' = [bm EXCEPT !.pc = "done", !.range = range,
                            !.result = rejectMarkNotFound(searched)]
  /\ UNCHANGED notBm

BmIdle == bm = BmNew({}, 1, 0)

-----------------------------------------------------------------------------
(* BookmarkFacilitator.computeLinePeg *)

\* What lineIntroduction resolves with, and the commit revParse('HEAD')
\* resolves with.  A commit of "" is a property that is absent.
IntroResults == {[line |-> 3, commit |-> "c0"], [line |-> 9, commit |-> "c1"]}
HeadCommit == "head"
GivenCommits == {"", "c1"}

LpResolved(value) == [status |-> "resolved", line |-> value.line, commit |-> value.commit]
LpPending == [status |-> "pending", line |-> 0, commit |-> ""]

LpNew(currentLine, commit) ==
  [currentLine |-> currentLine, commit |-> commit, pc |-> "blame",
   intro |-> LpPending, failed |-> "", hunks |-> <<>>, result |-> LpPending]

degradedKeepingCommit(currentLine, commit) == [line |-> currentLine, commit |-> commit]

\* catch (e) { return { line: currentLine }; }
degraded(currentLine, commit) == [line |-> currentLine, commit |-> ""]

\* The loop of computeLinePeg over the hunks.
RECURSIVE linePegFrom(_, _, _, _)
linePegFrom(currentLine, hunks, currentOffset, commit) ==
  IF hunks = <<>>
    THEN [line |-> currentLine - currentOffset, commit |-> commit]
    ELSE LET hunk == Head(hunks)
         IN  IF currentLine < hunk.currentStart
               THEN [line |-> currentLine - currentOffset, commit |-> ""]
               ELSE IF hunk.currentStart <= currentLine /\ currentLine < hunk.currentEnd
                 THEN [line |-> (((currentLine - hunk.currentStart)
                                    * (hunk.baseEnd - hunk.baseStart))
                                   \div (hunk.currentEnd - hunk.currentStart))
                                  + hunk.baseStart,
                       commit |-> commit]
                 ELSE linePegFrom(currentLine, Tail(hunks),
                                  hunk.currentEnd - hunk.baseEnd, commit)

\* The first try block settles: liveContent and lineIntroduction.  A
\* success is returned; a failure goes on to start the three reads.
LpBlameSettles ==
  /\ lp.pc = "blame"
  /\ \/ \E intro \in IntroResults :
          lp' = [lp EXCEPT !.pc = "done", !.intro = LpResolved(intro),
                           !.result = LpResolved(intro)]
     \/ lp' = [lp EXCEPT !.pc = "reads", !.intro = [LpPending EXCEPT !.status = "rejected"]]
  /\ UNCHANGED notLp

\* await Promise.all([promiseOfCommit, promiseOfBaseContent,
\* promiseOfCurrentContent]).  A commit that was given always resolves.
LpReadsSettle ==
  /\ lp.pc = "reads"
  /\ \E failed \in {"", "commit", "base", "current"} :
       /\ failed = "commit" => lp.commit = ""
       /\ IF failed = ""
            THEN lp' = [lp EXCEPT !.pc = "hunks"]
            ELSE lp' = [lp EXCEPT !.pc = "done", !.failed = failed,
                                  !.result = LpResolved(degraded(lp.currentLine, lp.commit))]
  /\ UNCHANGED notLp

\* await this.diffOps.getHunks(baseContent, currentContent), and the loop.
LpHunksSettle ==
  /\ lp.pc = "hunks"
  /\ LET commit == IF lp.commit = "" THEN HeadCommit ELSE lp.commit
     IN  \/ lp' = [lp EXCEPT !.pc = "done", !.failed = "hunks",
                             !.result = LpResolved(degraded(lp.currentLine, commit))]
         \/ \E hunks \in HunkLists :
              lp' = [lp EXCEPT !.pc = "done", !.hunks = hunks,
                               !.result = LpResolved(linePegFrom(lp.currentLine, hunks, 0, commit))]
  /\ UNCHANGED notLp

LpIdle == lp = LpNew(1, "")

-----------------------------------------------------------------------------
(* GitInteraction.getDeletedCasefileRefs *)

\* Most commits in the log of deletions.
MaxLogCommits == 2

\* Text is a sequence of tokens: a hash, a date, a time, a zone and a path
\* are one token each, as are the characters between them.
SP == " "

\* The commits of the log: commit k of a log, with the paths it deleted.
CommitHashes == <<"c1", "c2", "c3", "c4">>
CommitDates == <<"d1", "d2", "d3", "d4">>
LogCommit(k, paths) ==
  [commit |-> CommitHashes[k], date |-> CommitDates[k], paths |-> paths,
   form |-> "ok"]
DeletedPathLists == {<<"p1">>, <<"p2">>, <<"p1", "p2">>, <<"p2", "p1">>}

RECURSIVE LogsUpTo(_)
LogsUpTo(n) ==
  IF n = 0
    THEN {<<>>}
    ELSE LET shorter == LogsUpTo(n - 1)
         IN  shorter \cup {Append(log, LogCommit(Len(log) + 1, paths)) :
                             log \in {l \in shorter : Len(l) = n - 1},
                             paths \in DeletedPathLists}

\* The commit indication line: as `- %H %ci` prints it, or without its zone,
\* or without its line end.
infoLine(c) ==
  IF c.form = "noZone"
    THEN <<"-", SP, c.commit, SP, c.date, SP, "time", LF>>
  ELSE IF c.form = "noEnd"
    THEN <<"-", SP, c.commit, SP, c.date, SP, "time", SP, "zone">>
  ELSE <<"-", SP, c.commit, SP, c.date, SP, "time", SP, "zone", LF>>

\* The logs with one commit indication line malformed.
MalformedLogs(logs) ==
  UNION {{[log EXCEPT ![k].form = form] : k \in DOMAIN log, form \in {"noZone", "noEnd"}} :
           log \in logs}

RECURSIVE statusItems(_)
statusItems(paths) ==
  IF paths = <<>> THEN <<>> ELSE <<"D", NUL, Head(paths), NUL>> \o statusItems(Tail(paths))

\* What git log -z --diff-filter=D --name-status --pretty='format:- %H %ci'
\* prints: per commit the info line and the deleted paths, an empty record
\* between commits, and after the last one when trailing.
RECURSIVE logText(_, _)
logText(log, trailing) ==
  IF log = <<>>
    THEN <<>>
    ELSE infoLine(Head(log)) \o statusItems(Head(log).paths)
           \o (IF Len(log) > 1 \/ trailing THEN <<NUL>> ELSE <<>>)
           \o logText(Tail(log), trailing)

NonSpace(token) == token \notin {SP, LF, CR, NUL, "\t"}

\* deletedCasefileCommitInfoRegex.exec(ciRec).groups, or NoCommitInfo
\* /- (?<commit>\S+) (?<committed>\S+ \S+ \S+)/
NoCommitInfo == [commit |-> "", committed |-> <<>>]
commitInfoOf(ciRec) ==
  LET hits == {i \in 1..(Len(ciRec) - 8) :
                 /\ ciRec[i] = "-" /\ ciRec[i + 1] = SP /\ NonSpace(ciRec[i + 2])
                 /\ ciRec[i + 3] = SP /\ NonSpace(ciRec[i + 4])
                 /\ ciRec[i + 5] = SP /\ NonSpace(ciRec[i + 6])
                 /\ ciRec[i + 7] = SP /\ NonSpace(ciRec[i + 8])}
  IN  IF hits = {}
        THEN NoCommitInfo
        ELSE LET i == CHOOSE h \in hits : \A j \in hits : h <= j
             IN  [commit |-> ciRec[i + 2], committed |-> SubSeq(ciRec, i + 4, i + 8)]

DlParseNew ==
  [parseState |-> "action", commitInfo |-> NoCommitInfo, deletedCasefiles |-> <<>>,
   threw |-> FALSE, error |-> ""]

deletedEntryWithoutCommit(commitInfo, rec) ==
  [commit |-> "", committed |-> commitInfo.committed, path |-> rec]

\* { commit: commitInfo.commit, committed: new Date(commitInfo.committed),
\*   path: rec }
deletedEntry(commitInfo, rec) ==
  [commit |-> commitInfo.commit, committed |-> commitInfo.committed, path |-> rec]

\* The 'record' handler of getDeletedCasefileRefs.
onDeletedRecord(p, rec) ==
  IF p.threw THEN p
  ELSE IF p.parseState = "action"
    THEN IF Len(rec) = 0
           THEN p
           ELSE IF rec[1] = "-"
             THEN LET lineEnd == matchENDL(rec)
                  IN  IF lineEnd = NoMatch
                        THEN [p EXCEPT !.threw = TRUE, !.error = "InvalidGitLogOutput"]
                        ELSE LET match == commitInfoOf(slice(rec, 0, lineEnd.index))
                             IN  [p EXCEPT !.parseState = "path",
                                           !.commitInfo = IF match # NoCommitInfo
                                                            THEN match ELSE @]
             ELSE [p EXCEPT !.parseState = "path"]
  ELSE IF p.commitInfo = NoCommitInfo
    \* commitInfo is still null: reading commitInfo.commit is a TypeError
    THEN [p EXCEPT !.threw = TRUE, !.error = "TypeError"]
    ELSE [p EXCEPT !.parseState = "action",
                   !.deletedCasefiles = Append(@, deletedEntry(p.commitInfo, rec))]

RECURSIVE onDeletedRecords(_, _)
onDeletedRecords(p, records) ==
  IF records = <<>> THEN p
  ELSE onDeletedRecords(onDeletedRecord(p, Head(records)), Tail(records))

DlNew(log, trailing) ==
  [log |-> log, trailing |-> trailing, pending |-> logText(log, trailing),
   stream |-> SrcNew(NulSeparator, <<>>, 0), parse |-> DlParseNew,
   pc |-> "running", exitCode |-> 0, result |-> <<>>, failure |-> ""]

\* The records the stream has emitted that the handler has not yet seen.
newRecords(before, after) == SubSeq(after.records, Len(before.records) + 1, Len(after.records))

\* git writes the next chunk of its output.  An error the handler throws
\* leaves _write through emit and write, uncaught: the write never completes
\* and the stream never closes.
DlWrite ==
  /\ dl.pc = "running"
  /\ \E n \in 1..Len(dl.pending) :
       LET stream == write(dl.stream, slice(dl.pending, 0, n))
           parse == onDeletedRecords(dl.parse, newRecords(dl.stream, stream))
       IN  dl' = [dl EXCEPT !.pending = slice(@, n, Len(@)),
                            !.stream = stream,
                            !.parse = parse,
                            !.pc = IF parse.threw THEN "uncaught" ELSE @]
  /\ UNCHANGED notDl

\* git closes its output: the stream is ended.  The output ends with a NUL,
\* so _final has no record left to emit.
DlEnd ==
  /\ dl.pc = "running"
  /\ dl.pending = <<>>
  /\ LET stream == final(dl.stream)
     IN  dl' = [dl EXCEPT !.pc = "closed",
                          !.stream = stream,
                          !.parse = onDeletedRecords(@, newRecords(dl.stream, stream))]
  /\ UNCHANGED notDl

\* The runner's timer fires on a call that nothing else will settle.
DlTimeout ==
  /\ dl.pc = "uncaught"
  /\ dl' = [dl EXCEPT !.pc = "done", !.failure = "Timeout"]
  /\ UNCHANGED notDl

\* exit: code => !code ? deletedCasefiles : []
DlExit ==
  /\ dl.pc = "closed"
  /\ \E code \in {0, 128} :
       dl' = [dl EXCEPT !.pc = "done", !.exitCode = code,
                        !.result = IF code = 0 THEN dl.parse.deletedCasefiles ELSE <<>>]
  /\ UNCHANGED notDl

DlIdle == dl = DlNew(<<>>, FALSE)

-----------------------------------------------------------------------------
(* GitInteraction.getListOfCasefiles *)

\* Most entries git ls-tree lists.
MaxTreeEntries == 3

\* Longest chunk of the listing written at once.
MaxChunkLen == 6

TAB == "\t"
SLASH == "/"

\* The entries git ls-tree -rz can list: mode, type and name, a name being
\* a sequence of tokens (a path component, a '/' or a line feed).
LsEntry(mode, type, name) == [mode |-> mode, type |-> type, name |-> name]
LsEntries ==
  { LsEntry("100644", "blob", <<"a", SLASH, "x">>),
    LsEntry("100644", "blob", <<"a", SLASH, "y">>),
    LsEntry("100644", "blob", <<"a", SLASH, "b", SLASH, "x">>),
    LsEntry("100644", "blob", <<"x">>),
    LsEntry("100644", "blob", <<"a", LF, SLASH, "x">>),
    LsEntry("100755", "blob", <<"a", SLASH, "x">>),
    LsEntry("160000", "commit", <<"a", SLASH, "y">>) }

RECURSIVE ListingsUpTo(_)
ListingsUpTo(n) ==
  IF n = 0
    THEN {<<>>}
    ELSE LET shorter == ListingsUpTo(n - 1)
         IN  shorter \cup {Append(l, e) : l \in {k \in shorter : Len(k) = n - 1},
                                          e \in LsEntries}

\* What git ls-tree -rz --full-tree prints: every entry ends with NUL.
RECURSIVE lsTreeText(_)
lsTreeText(listing) ==
  IF listing = <<>>
    THEN <<>>
    ELSE <<Head(listing).mode, SP, Head(listing).type, SP, "hash", TAB>>
           \o Head(listing).name \o <<NUL>> \o lsTreeText(Tail(listing))

cfNameUpToFirstSlash(name) ==
  LET slashes == {k \in 1..Len(name) : name[k] = SLASH}
  IN  IF slashes = {} THEN <<>>
      ELSE SubSeq(name, 1, (CHOOSE k \in slashes : \A j \in slashes : k <= j) - 1)

\* (?<cfName>.+)\/[^/]+$ on a name: the tokens before the right-most '/',
\* or <<>> when the name does not match ('.' matches no line terminator).
cfNameOf(name) ==
  LET slashes == {k \in 1..Len(name) : name[k] = SLASH}
  IN  IF slashes = {}
        THEN <<>>
        ELSE LET k == CHOOSE s \in slashes : \A j \in slashes : j <= s
             IN  IF /\ k > 1
                    /\ k < Len(name)
                    /\ \A i \in 1..(k - 1) : name[i] \notin {LF, CR}
                   THEN SubSeq(name, 1, k - 1)
                   ELSE <<>>

\* gitLsTreeCasefileEntryRegex.exec(entry).groups, or NoLsMatch
NoLsMatch == [mode |-> "", type |-> "", cfPath |-> <<>>, cfName |-> <<>>]
lsTreeCasefileEntry(entry) ==
  IF /\ Len(entry) > 6
     /\ NonSpace(entry[1]) /\ entry[2] = SP
     /\ NonSpace(entry[3]) /\ entry[4] = SP
     /\ NonSpace(entry[5]) /\ entry[6] = TAB
     /\ cfNameOf(slice(entry, 6, Len(entry))) # <<>>
    THEN [mode |-> entry[1], type |-> entry[3],
          cfPath |-> slice(entry, 6, Len(entry)),
          cfName |-> cfNameOf(slice(entry, 6, Len(entry)))]
    ELSE NoLsMatch

\* The 'record' handler of getListOfCasefiles.
onLsTreeRecord(casefiles, entry) ==
  LET match == lsTreeCasefileEntry(entry)
      instance == [path |-> match.cfPath]
      last == Len(casefiles)
  IN  IF match = NoLsMatch \/ match.mode # "100644" \/ match.type # "blob"
        THEN casefiles
        ELSE IF last = 0 \/ casefiles[last].name # match.cfName
          THEN Append(casefiles, [name |-> match.cfName, instances |-> <<instance>>])
          ELSE [casefiles EXCEPT ![last].instances = Append(@, instance)]

RECURSIVE onLsTreeRecords(_, _)
onLsTreeRecords(casefiles, records) ==
  IF records = <<>> THEN casefiles
  ELSE onLsTreeRecords(onLsTreeRecord(casefiles, Head(records)), Tail(records))

LsNew(listing) ==
  [listing |-> listing, pending |-> lsTreeText(listing),
   stream |-> SrcNew(NulSeparator, <<>>, 0), casefiles |-> <<>>,
   pc |-> "running", exitCode |-> 0, result |-> <<>>]

\* git writes the next chunk of its output.
LsWrite ==
  /\ ls.pc = "running"
  /\ \E n \in 1..Len(ls.pending) :
       /\ n <= MaxChunkLen
       /\ LET stream == write(ls.stream, slice(ls.pending, 0, n))
          IN  ls' = [ls EXCEPT !.pending = slice(@, n, Len(@)),
                               !.stream = stream,
                               !.casefiles =
                                 onLsTreeRecords(@, newRecords(ls.stream, stream))]
  /\ UNCHANGED notLs

\* git closes its output: the stream is ended.
LsEnd ==
  /\ ls.pc = "running"
  /\ ls.pending = <<>>
  /\ LET stream == final(ls.stream)
     IN  ls' = [ls EXCEPT !.pc = "closed",
                          !.stream = stream,
                          !.casefiles = onLsTreeRecords(@, newRecords(ls.stream, stream))]
  /\ UNCHANGED notLs

\* exit: code => code ? [] : casefiles
LsExit ==
  /\ ls.pc = "closed"
  /\ \E code \in {0, 128} :
       ls' = [ls EXCEPT !.pc = "done", !.exitCode = code,
                        !.result = IF code # 0 THEN <<>> ELSE ls.casefiles]
  /\ UNCHANGED notLs

LsIdle == ls = LsNew(<<>>)

-----------------------------------------------------------------------------
(* GitInteraction.selectCommitsUnknownToRemote *)

\* Most commits a call is given.
MaxCommits == 9

\* const parallel = 8
parallel == 8

\* How a testIfCommitKnownToRemote check stands: not started, running, or
\* settled with true (git branch -r --contains printed a line), with false
\* (no output) or with a rejection.
CheckSettlements == {"known", "unknown", "rejected"}

workSliceOfNine(i, n) ==
  {k \in 1..n : i * parallel < k /\ k <= (i + 1) * parallel + 1}

\* commits.slice(i * parallel, (i + 1) * parallel), as the indices sliced
workSlice(i, n) ==
  {k \in 1..n : i * parallel < k /\ k <= (i + 1) * parallel}

\* parts.flat() of the slice's [] and [commit] parts, in the slice's order
RECURSIVE newResults(_, _, _)
newResults(checks, from, to) ==
  IF from > to
    THEN <<>>
    ELSE (IF checks[from] = "unknown" THEN <<from>> ELSE <<>>)
           \o newResults(checks, from + 1, to)

ScNew(n) ==
  [n |-> n, checks |-> [k \in 1..n |-> "unstarted"], i |-> 0, pc |-> "loop",
   result |-> <<>>]

\* One turn of the loop: the checks of the next slice are started, or the
\* loop ends and the result is returned.
ScLoop ==
  /\ sc.pc = "loop"
  /\ IF sc.i * parallel < sc.n
       THEN sc' = [sc EXCEPT !.pc = "await",
                             !.checks = [k \in 1..sc.n |->
                                           IF k \in workSlice(sc.i, sc.n)
                                             THEN "running" ELSE @[k]]]
       ELSE sc' = [sc EXCEPT !.pc = "resolved"]
  /\ UNCHANGED notSc

\* A check settles.  Promise.all rejects with the first rejection and is
\* fulfilled when the last check of the slice is; the call then goes on.
ScCheckSettles ==
  /\ \E k \in 1..sc.n, settlement \in CheckSettlements :
       /\ sc.checks[k] = "running"
       /\ LET checks == [sc.checks EXCEPT ![k] = settlement]
              slice_ == workSlice(sc.i, sc.n)
              first == CHOOSE f \in slice_ : \A j \in slice_ : f <= j
              last == CHOOSE l \in slice_ : \A j \in slice_ : j <= l
          IN  IF sc.pc # "await"
                THEN sc' = [sc EXCEPT !.checks = checks]
                ELSE IF settlement = "rejected"
                  THEN sc' = [sc EXCEPT !.checks = checks, !.pc = "rejected"]
                  ELSE IF \A j \in slice_ : checks[j] \in {"known", "unknown"}
                    THEN sc' = [sc EXCEPT !.checks = checks,
                                          !.result = @ \o newResults(checks, first, last),
                                          !.i = @ + 1,
                                          !.pc = "loop"]
                    ELSE sc' = [sc EXCEPT !.checks = checks]
  /\ UNCHANGED notSc

ScIdle == sc = ScNew(0)

-----------------------------------------------------------------------------
(* GitInteraction.mktree, run by the command runner *)

MkNames == {<<"x">>, <<"y">>, <<"a", SLASH, "x">>}

RECURSIVE EntryListsUpTo(_)
EntryListsUpTo(n) ==
  IF n = 0
    THEN {<<>>}
    ELSE LET shorter == EntryListsUpTo(n - 1)
         IN  shorter \cup {Append(l, BlobEntry(name, Blob(name))) :
                             l \in {k \in shorter : Len(k) = n - 1}, name \in MkNames}

\* entries.filter(entry => entry.name.includes('/'))
badEntriesOf(entries) == SelectSeq(entries, LAMBDA e : includes(e.name, SLASH))

\* A line of git's output: a hash or nothing, with or without white space
\* around it.  No line at all leaves `result` null.
NoLine == [padded |-> FALSE, text |-> None]
OutputLine(padded, text) == [padded |-> padded, text |-> text]
trim(line) == line.text

\* What git mktree can print for the entries fed to it.
MkOutputs(entries) ==
  {NoLine} \cup {OutputLine(padded, text) :
                   padded \in BOOLEAN,
                   text \in {EmptyString, gitEmptyTree,
                             GitMktree([i \in DOMAIN entries |->
                                          <<entries[i].mode, entries[i].type,
                                            entries[i].hash, entries[i].name>>])}}

\* makeResult of mktree: the hash, or InvalidTreeResult thrown.
mktreeMakeResult(result) ==
  IF result = None \/ result = EmptyString \/ result = gitEmptyTree
    THEN [threw |-> TRUE, code |-> "InvalidTreeResult", value |-> None]
    ELSE [threw |-> FALSE, code |-> "none", value |-> result]

\* stepExit of the command runner, given makeResult: resolve(makeResult())
\* runs in the listener of the child's 'exit' or of the stream's 'close'
\* event, so that an exception of makeResult leaves the listener without
\* resolve or reject having been called.
stepExitMaking(exitCode, made) ==
  IF exitCode # 0 THEN Rejected("ChildProcessFailure")
  ELSE IF made.threw THEN Pending
  ELSE Resolved(made.value)

MkNew(entries) ==
  [entries |-> entries, pc |-> "start", invoked |-> FALSE, exited |-> FALSE,
   exitCode |-> 0, result |-> None, uncaught |-> "none", outcome |-> Pending]

\* mktree(entries) up to the invocation of git.
MkCall ==
  /\ mk.pc = "start"
  /\ IF Len(badEntriesOf(mk.entries)) # 0
       THEN mk' = [mk EXCEPT !.pc = "done", !.outcome = Rejected("InvalidTreeEntry")]
       ELSE mk' = [mk EXCEPT !.pc = "running", !.invoked = TRUE]
  /\ UNCHANGED notMk

\* git has printed its output and exits, and every stream is closed.
MkExit ==
  /\ mk.pc = "running"
  /\ \E line \in MkOutputs(mk.entries), code \in {0, 128} :
       LET result == trim(line)
           made == mktreeMakeResult(result)
           settlement == stepExitMaking(code, made)
       IN  mk' = [mk EXCEPT !.pc = IF settlement = Pending THEN "exited" ELSE "done",
                            !.exited = TRUE,
                            !.exitCode = code,
                            !.result = result,
                            !.uncaught = IF code = 0 /\ made.threw THEN made.code ELSE @,
                            !.outcome = settlement]
  /\ UNCHANGED notMk

\* The runner's timer fires while the execution promise is pending.
MkTimeout ==
  /\ mk.pc \in {"running", "exited"}
  /\ mk' = [mk EXCEPT !.pc = "done", !.outcome = Rejected("Timeout")]
  /\ UNCHANGED notMk

MkIdle == mk = MkNew(<<>>)

-----------------------------------------------------------------------------
(* GitInteraction.lineIntroduction, run by the command runner *)

\* Most lines git blame prints after the first.
MaxFollowingLines == 2

ZeroSha40 == "0000000000000000000000000000000000000000"
ZeroSha64 == "0000000000000000000000000000000000000000000000000000000000000000"
BlameShas == {"c1", ZeroSha40, ZeroSha64}

\* git blame -L n,n --porcelain: "<sha> <sourceline> <resultline> <count>",
\* then header lines and the line's content behind a tab.
BlameFirstLine(sha) == <<sha, SP, "7", SP, "5", SP, "1">>
BlameFollowingLines == {<<"author", SP, "A">>, <<TAB, "text", SP, "9">>}

RECURSIVE FollowingUpTo(_)
FollowingUpTo(n) ==
  IF n = 0
    THEN {<<>>}
    ELSE LET shorter == FollowingUpTo(n - 1)
         IN  shorter \cup {Append(l, f) : l \in {k \in shorter : Len(k) = n - 1},
                                          f \in BlameFollowingLines}

RECURSIVE linesText(_)
linesText(lines) ==
  IF lines = <<>> THEN <<>> ELSE Head(lines) \o <<LF>> \o linesText(Tail(lines))

\* What blame prints: nothing, or a first line and the lines after it.
BlameOutputs ==
  {<<>>} \cup {<<BlameFirstLine(sha)>> \o following :
                 sha \in BlameShas, following \in FollowingUpTo(MaxFollowingLines)}

\* line.split(' '): the fields between the spaces
RECURSIVE splitFields(_, _)
splitFields(line, field) ==
  IF line = <<>> THEN <<field>>
  ELSE IF Head(line) = SP THEN <<field>> \o splitFields(Tail(line), <<>>)
  ELSE splitFields(Tail(line), Append(field, Head(line)))

\* Number(field): the number a decimal numeral denotes, NaN for any other
\* field and for undefined.
NaN == [nan |-> TRUE, n |-> 0]
Num(n) == [nan |-> FALSE, n |-> n]
NumberOf(fields, i) ==
  IF i <= Len(fields) /\ fields[i] # <<>> /\ \A k \in DOMAIN fields[i] : fields[i][k] \in Digits
    THEN Num(parseInt(fields[i]))
    ELSE NaN

\* /^(?:0{40}|0{64})$/
isZeroSha(commit) == commit \in {<<ZeroSha40>>, <<ZeroSha64>>}

\* The 'record' handler of lineIntroduction; a deleted commit is <<>>.
onBlameLine(result, line) ==
  LET fields == splitFields(line, <<>>)
  IN  [commit |-> IF isZeroSha(fields[1]) THEN <<>> ELSE fields[1],
       line |-> NumberOf(fields, 2)]

RECURSIVE onBlameLines(_, _)
onBlameLines(result, records) ==
  IF records = <<>> THEN result
  ELSE onBlameLines(onBlameLine(result, Head(records)), Tail(records))

\* commit == null && liveContent !== undefined
hasLiveContent(commit, liveContent) == commit = "null" /\ liveContent # "undefined"

\* exit of lineIntroduction: the result, or NoCommitFound thrown.
lineIntroductionExit(result) ==
  IF result.commit # <<>>
    THEN [threw |-> FALSE, code |-> "none", value |-> result]
    ELSE [threw |-> TRUE, code |-> "NoCommitFound", value |-> None]

\* stepExit of the command runner, given exit: resolve(exit(exitCode)) runs
\* in an event listener, where an exception of exit escapes resolve and
\* reject alike.
stepExitExiting(exited) ==
  IF exited.threw THEN Pending ELSE Resolved(exited.value)

NoBlameResult == [commit |-> <<>>, line |-> NaN]

LiNew(commit, liveContent, output) ==
  [commit |-> commit, liveContent |-> liveContent, output |-> output,
   contents |-> hasLiveContent(commit, liveContent),
   fedStdin |-> hasLiveContent(commit, liveContent),
   pending |-> linesText(output), stream |-> SrcNew(ENDL_PATTERN, <<>>, 1),
   result |-> NoBlameResult, pc |-> "running", exited |-> FALSE,
   outcome |-> Pending]

\* git writes the next chunk of its output; endStream destroys the stream
\* at the first record.
LiWrite ==
  /\ li.pc = "running"
  /\ ~li.stream.destroyed
  /\ \E n \in 1..Len(li.pending) :
       LET stream == write(li.stream, slice(li.pending, 0, n))
       IN  li' = [li EXCEPT !.pending = slice(@, n, Len(@)),
                            !.stream = stream,
                            !.result = onBlameLines(@, newRecords(li.stream, stream))]
  /\ UNCHANGED notLi

\* git has exited and the stream is closed, by its end or by endStream.
LiExit ==
  /\ li.pc = "running"
  /\ li.pending = <<>> \/ li.stream.destroyed
  /\ LET stream == final(li.stream)
         result == onBlameLines(li.result, newRecords(li.stream, stream))
         settlement == stepExitExiting(lineIntroductionExit(result))
     IN  li' = [li EXCEPT !.stream = stream,
                          !.result = result,
                          !.exited = TRUE,
                          !.pc = IF settlement = Pending THEN "exited" ELSE "done",
                          !.outcome = settlement]
  /\ UNCHANGED notLi

\* The runner's timer fires while the execution promise is pending.
LiTimeout ==
  /\ li.pc \in {"running", "exited"}
  /\ li' = [li EXCEPT !.pc = "done", !.outcome = Rejected("Timeout")]
  /\ UNCHANGED notLi

LiIdle == li = LiNew("null", "undefined", <<>>)

-----------------------------------------------------------------------------
(* GitInteraction.findCurrentLinePosition *)

\* Most entries git blame --incremental prints.
MaxBlameEntries == 2

\* The commit sought, and the shas blame can print: the commit's and
\* another commit's.
SoughtCommit == <<"c", "1">>
EntryShas == {<<"c", "1">>, <<"c", "2">>}
SoughtLines == {1, 5, 7}

\* An entry "<sha> <sourceline> <resultline> <span>" of the output.
BlameEntry(sha, sourceline, resultline, span) ==
  [sha |-> sha, sourceline |-> sourceline, resultline |-> resultline, span |-> span]
BlameEntries ==
  {BlameEntry(sha, at[1], resultline, at[2]) :
     sha \in EntryShas, at \in {<<1, 1>>, <<4, 3>>}, resultline \in {2, 11}}
entryLine(e) ==
  e.sha \o <<SP>> \o Numeral(e.sourceline) \o <<SP>> \o Numeral(e.resultline)
        \o <<SP>> \o Numeral(e.span)

RECURSIVE BlamesUpTo(_)
BlamesUpTo(n) ==
  IF n = 0
    THEN {<<>>}
    ELSE LET shorter == BlamesUpTo(n - 1)
         IN  shorter \cup {Append(l, e) : l \in {k \in shorter : Len(k) = n - 1},
                                          e \in BlameEntries}

\* The digits a field begins with: what \d+ takes of it.
RECURSIVE leadingDigits(_)
leadingDigits(field) ==
  IF field # <<>> /\ Head(field) \in Digits
    THEN <<Head(field)>> \o leadingDigits(Tail(field))
    ELSE <<>>

startsWith(s, prefix) ==
  Len(s) >= Len(prefix) /\ SubSeq(s, 1, Len(prefix)) = prefix

\* commitLinePattern.exec(line): the groups as numbers, or NoLineParts
\* ^${commit}\S* (?<sourceline>\d+) (?<resultline>\d+) (?<span>\d+)
NoLineParts == [sourceline |-> -1, resultline |-> -1, span |-> -1]
lineParts(commit, line) ==
  LET fields == splitFields(line, <<>>)
  IN  IF /\ Len(fields) >= 4
         /\ startsWith(fields[1], commit)
         /\ fields[2] # <<>> /\ leadingDigits(fields[2]) = fields[2]
         /\ fields[3] # <<>> /\ leadingDigits(fields[3]) = fields[3]
         /\ leadingDigits(fields[4]) # <<>>
        THEN [sourceline |-> parseInt(fields[2]), resultline |-> parseInt(fields[3]),
              span |-> parseInt(leadingDigits(fields[4]))]
        ELSE NoLineParts

\* sourceline <= soughtLine && soughtLine < sourceline + span
spanHolds(parts, soughtLine) ==
  /\ parts # NoLineParts
  /\ parts.sourceline <= soughtLine
  /\ soughtLine < parts.sourceline + parts.span

\* The 'record' handler: resolve at a line whose span holds the line sought.
onIncrementalLine(f, line) ==
  LET parts == lineParts(f.commit, line)
      found == Resolved(parts.resultline + (f.soughtLine - parts.sourceline))
  IN  IF spanHolds(parts, f.soughtLine)
        THEN [f EXCEPT !.outcome = Settle(@, found), !.attempts = Append(@, found)]
        ELSE f

RECURSIVE onIncrementalLines(_, _)
onIncrementalLines(f, records) ==
  IF records = <<>> THEN f
  ELSE onIncrementalLines(onIncrementalLine(f, Head(records)), Tail(records))

\* The record at which the handler first calls endStream; 0 when at none.
firstEndStream(commit, soughtLine, entries) ==
  LET at == {i \in DOMAIN entries :
               spanHolds(lineParts(commit, entryLine(entries[i])), soughtLine)}
  IN  IF at = {} THEN 0 ELSE CHOOSE i \in at : \A j \in at : i <= j

FcNew(soughtLine, entries) ==
  [commit |-> SoughtCommit, soughtLine |-> soughtLine, entries |-> entries,
   pending |-> linesText([i \in DOMAIN entries |-> entryLine(entries[i])]),
   stream |-> SrcNew(ENDL_PATTERN, <<>>,
                     firstEndStream(SoughtCommit, soughtLine, entries)),
   pc |-> "running", exited |-> FALSE, exitCode |-> 0,
   attempts |-> <<>>, outcome |-> Pending]

\* git writes the next chunk of its output.
FcWrite ==
  /\ fc.pc = "running"
  /\ ~fc.stream.destroyed
  /\ \E n \in 1..Len(fc.pending) :
       LET stream == write(fc.stream, slice(fc.pending, 0, n))
       IN  fc' = onIncrementalLines([fc EXCEPT !.pending = slice(@, n, Len(@)),
                                               !.stream = stream],
                                    newRecords(fc.stream, stream))
  /\ UNCHANGED notFc

\* git has exited and the stream is closed: on exit code 0 the runner calls
\* makeResult, which rejects with LineNotFound; on another code the runner
\* rejects and .catch(reject) passes that on.
FcExit ==
  /\ fc.pc = "running"
  /\ fc.pending = <<>> \/ fc.stream.destroyed
  /\ \E code \in {0, 128} :
       LET stream == final(fc.stream)
           flushed == onIncrementalLines([fc EXCEPT !.stream = stream],
                                         newRecords(fc.stream, stream))
           rejection == Rejected(IF code = 0 THEN "LineNotFound"
                                 ELSE "ChildProcessFailure")
       IN  fc' = [flushed EXCEPT !.pc = "done", !.exited = TRUE, !.exitCode = code,
                                 !.outcome = Settle(@, rejection),
                                 !.attempts = Append(@, rejection)]
  /\ UNCHANGED notFc

\* The runner's timer fires first: .catch(reject) passes the Timeout on.
FcTimeout ==
  /\ fc.pc = "running"
  /\ fc' = [fc EXCEPT !.pc = "done",
                      !.outcome = Settle(@, Rejected("Timeout")),
                      !.attempts = Append(@, Rejected("Timeout"))]
  /\ UNCHANGED notFc

FcIdle == fc = FcNew(1, <<>>)

-----------------------------------------------------------------------------
(* computeCurrentLineRange and computeLinePeg over the hunks of one diff *)

\* Most changes in one diff, and the highest line looked up.
MaxEdits == 2
MaxPegLine == 8

\* One change of a diff: the unchanged lines before it, the base lines it
\* deletes and the current lines it inserts.
Edits ==
  {e \in [gap : {1, 2}, del : {0, 1, 2}, ins : {0, 1, 2}] : e.del + e.ins > 0}

EditListsUpTo(n) == UNION {[1..k -> Edits] : k \in 0..n}

\* The hunks getHunks builds for the `@@ -s,n +t,m @@` lines of `diff -U0`:
\* a side with a count of zero starts one line after the line diff names.
RECURSIVE diffHunks(_, _, _)
diffHunks(edits, basePos, currentOffset) ==
  IF edits = <<>>
    THEN <<>>
    ELSE LET e == Head(edits)
             baseStart == basePos + e.gap
             currentStart == baseStart + currentOffset
             newHunk == Hunk(baseStart, baseStart + e.del,
                             currentStart, currentStart + e.ins)
         IN  <<newHunk>> \o diffHunks(Tail(edits), newHunk.baseEnd,
                                      newHunk.currentEnd - newHunk.baseEnd)

NoPeg == [line |-> 0, commit |-> ""]

PrNew(line, hunks) ==
  [line |-> line, hunks |-> hunks, pc |-> "start",
   range |-> NoRange, peg |-> NoPeg, back |-> NoRange]

\* computeCurrentLineRange(line) once getHunks has resolved.
PrRange ==
  /\ pr.pc = "start"
  /\ pr' = [pr EXCEPT !.pc = "ranged",
                      !.range = computeCurrentLineRange(pr.line, FALSE, pr.hunks)]
  /\ UNCHANGED notPr

\* computeLinePeg(currentLine) once blame has failed and the commit, the
\* two contents and the hunks are obtained.
PrPeg ==
  /\ pr.pc = "start"
  /\ pr' = [pr EXCEPT !.pc = "pegged",
                      !.peg = linePegFrom(pr.line, pr.hunks, 0, HeadCommit)]
  /\ UNCHANGED notPr

\* currentLocation's diff fallback for the peg of PrPeg, over the same hunks.
PrBack ==
  /\ pr.pc = "pegged"
  /\ pr' = [pr EXCEPT !.pc = "back",
                      !.back = computeCurrentLineRange(pr.peg.line, FALSE, pr.hunks)]
  /\ UNCHANGED notPr

PrIdle == pr = PrNew(1, <<>>)

-----------------------------------------------------------------------------
(* findLatestCommitParentWithPath over the parents of one commit *)

\* Most parents of the limiting commit.
MaxParents == 3

\* The parents in the order rev-parse prints them.
ParentNames == <<"p1", "p2", "p3", "p4">>

\* What getDateOfLastChange settles with for one parent: a date, 0 when the
\* path has no history there, or a failure of the git command.
LookupResults ==
  {Resolved(0), Resolved(1), Resolved(2),
   Rejected("ChildProcessFailure"), Rejected("BadOptionsKey")}

\* {date: 0}: its commit is undefined.
UndefinedCommit == "undefined"
BestStart == [commit |-> UndefinedCommit, date |-> 0]

LtNew(lookups) ==
  [lookups |-> lookups, pc |-> "parents", parents |-> <<>>, settled |-> {},
   k |-> 1, bestYet |-> BestStart, outcome |-> Pending]

\* await this.runGitCommand('rev-parse', ...): the parents are listed and
\* the map starts one date lookup for each.
LtRevParse ==
  /\ lt.pc = "parents"
  /\ \/ lt' = [lt EXCEPT !.pc = "done", !.outcome = Rejected("ChildProcessFailure")]
     \/ lt' = [lt EXCEPT !.pc = "reduce",
                         !.parents = SubSeq(ParentNames, 1, Len(lt.lookups))]
  /\ UNCHANGED notLt

\* One of the date lookups settles, in any order.
LtLookupSettles ==
  /\ lt.pc = "reduce"
  /\ \E i \in DOMAIN lt.parents \ lt.settled :
       lt' = [lt EXCEPT !.settled = @ \cup {i}]
  /\ UNCHANGED notLt

\* One step of the reduce: bestYet is there and the lookup of the next
\* parent has settled.
LtReduce ==
  /\ lt.pc = "reduce"
  /\ lt.k \in lt.settled
  /\ LET r == lt.lookups[lt.k]
     IN  IF r.status = "resolved"
           THEN lt' = [lt EXCEPT !.k = @ + 1,
                                 !.bestYet = betterOf(@, [commit |-> lt.parents[lt.k],
                                                          date |-> r.value])]
         ELSE IF hasAssertError(r)
           THEN lt' = [lt EXCEPT !.pc = "done", !.outcome = Rejected(r.code)]
         ELSE lt' = [lt EXCEPT !.k = @ + 1]
  /\ UNCHANGED notLt

\* return bestParent.commit
LtReturn ==
  /\ lt.pc = "reduce"
  /\ lt.k = Len(lt.parents) + 1
  /\ lt' = [lt EXCEPT !.pc = "done", !.outcome = Resolved(lt.bestYet.commit)]
  /\ UNCHANGED notLt

LtIdle == lt = LtNew(<<>>)

-----------------------------------------------------------------------------
(* Another collaborator sharing to the same remote *)

\* The casefile the other collaborator shares.
OtherGroup == <<"o">>
OtherPath == <<"o", "/", "z">>
OtherEntry ==
  SubtreeEntry(OtherGroup, Tree({BlobEntry(<<"z">>, Blob(JSONstringify(<<>>)))}))

\* The commit the other collaborator's shareCasefile pushes: the remote's
\* casefiles and theirs, on top of the remote's commit.
OtherCommit(remote) ==
  IF remote = None
    THEN Commit(Tree({OtherEntry}), <<>>, "Share casefile")
    ELSE Commit(Tree(TreeOf(remote).entries \cup {OtherEntry}), <<remote>>,
                "Share casefile")

\* The other collaborator's push reaches the remote after this client's
\* deleteCasefilePaths has read its local ref and before it has pushed.
OtherShares ==
  /\ op.kind = "delete"
  /\ pc \notin {"idle", "d_revParse", "d_updateRef"}
  /\ ~co.shared
  /\ remoteRef' = OtherCommit(remoteRef)
  /\ co' = [shared |-> TRUE]
  /\ UNCHANGED <<localRef, op, pc, lv, calls, outcome, prev, opsDone>>
  /\ UNCHANGED <<runVars, src, jan, dh, bm, lp, dl, ls, sc, mk, li, fc, pr, lt>>

CoIdle == co = [shared |-> FALSE]

-----------------------------------------------------------------------------
(* Specifications *)

GitIdle ==
  /\ op = NoOp
  /\ pc = "idle"
  /\ lv = LvInit
  /\ calls = <<>>
  /\ outcome = [status |-> "none", value |-> None, code |-> "none"]
  /\ prev = [op |-> NoOp, outcome |-> [status |-> "none", value |-> None, code |-> "none"],
             faulted |-> FALSE, localRef |-> None]
  /\ opsDone = 0

RunnerIdle ==
  /\ rIn = NoInvocation
  /\ closesComplete = [stdout |-> JSTrue, process |-> JSFalse]
  /\ child = [proc |-> "none", stream |-> "none"]
  /\ execution = Pending
  /\ timer = "none"
  /\ invocation = Pending
  /\ cb = NoCalls

\* A repository whose shared-casefiles ref was just fetched from the remote.
Init ==
  /\ localRef \in InitialRefs
  /\ remoteRef = localRef
  /\ GitIdle
  /\ RunnerIdle
  /\ SrcIdle
  /\ JanIdle
  /\ DhIdle
  /\ BmIdle
  /\ LpIdle
  /\ DlIdle
  /\ LsIdle
  /\ ScIdle
  /\ MkIdle
  /\ LiIdle
  /\ FcIdle
  /\ PrIdle
  /\ LtIdle
  /\ CoIdle

Next ==
  \/ StartShare \/ ShareRevParse \/ ShareHash \/ ShareLsGroup \/ ShareMkGroup
  \/ ShareLsRoot \/ ShareMkRoot \/ ShareCommit \/ SharePush \/ ShareUpdateRef
  \/ StartDelete \/ DeleteRevParse
  \/ DeleteGroupCallback
  \/ DeleteGroupsSettled \/ DeleteLsRoot \/ DeleteMkRoot \/ DeleteCommit
  \/ DeletePush \/ DeleteUpdateRef
  \/ StartGet \/ GetCatFile
  \/ StartLatest \/ LatestParents \/ LatestDate

Spec == Init /\ [][Next]_vars

RunnerInit ==
  /\ localRef = None
  /\ remoteRef = None
  /\ GitIdle
  /\ RunnerIdle
  /\ SrcIdle
  /\ JanIdle
  /\ DhIdle
  /\ BmIdle
  /\ LpIdle
  /\ DlIdle
  /\ LsIdle
  /\ ScIdle
  /\ MkIdle
  /\ LiIdle
  /\ FcIdle
  /\ PrIdle
  /\ LtIdle
  /\ CoIdle

RunnerNext ==
  Invoke \/ StdoutClose \/ StdoutError \/ ChildExit \/ ChildError \/ TimerFires

RunnerSpec == RunnerInit /\ [][RunnerNext]_vars

ConsumerInit ==
  /\ localRef = None
  /\ remoteRef = None
  /\ GitIdle
  /\ RunnerIdle
  /\ JanIdle
  /\ DhIdle
  /\ BmIdle
  /\ LpIdle
  /\ DlIdle
  /\ LsIdle
  /\ ScIdle
  /\ MkIdle
  /\ LiIdle
  /\ FcIdle
  /\ PrIdle
  /\ LtIdle
  /\ CoIdle
  /\ \E separator \in Separators, input \in SrcInputs, stopAt \in 0..MaxStopAt :
       src = SrcNew(separator, input, stopAt)

ConsumerNext ==
  SrcWrite \/ SrcEnd

ConsumerSpec == ConsumerInit /\ [][ConsumerNext]_vars

JanitorInit ==
  /\ localRef = None
  /\ remoteRef = None
  /\ GitIdle
  /\ RunnerIdle
  /\ SrcIdle
  /\ JanIdle
  /\ DhIdle
  /\ BmIdle
  /\ LpIdle
  /\ DlIdle
  /\ LsIdle
  /\ ScIdle
  /\ MkIdle
  /\ LiIdle
  /\ FcIdle
  /\ PrIdle
  /\ LtIdle
  /\ CoIdle

JanitorNext ==
  addTask \/ JanCleanUpSync \/ JanCleanUpAsync

JanitorSpec == JanitorInit /\ [][JanitorNext]_vars

\* getHunks called with any two content arguments, or with two files whose
\* diff prints any lines.
DiffInit ==
  /\ localRef = None
  /\ remoteRef = None
  /\ GitIdle
  /\ RunnerIdle
  /\ SrcIdle
  /\ JanIdle
  /\ BmIdle
  /\ LpIdle
  /\ DlIdle
  /\ LsIdle
  /\ ScIdle
  /\ MkIdle
  /\ LiIdle
  /\ FcIdle
  /\ PrIdle
  /\ LtIdle
  /\ CoIdle
  /\ \/ \E baseContent \in ContentKinds, currentContent \in ContentKinds :
          dh = DhNew(baseContent, currentContent, <<>>)
     \/ \E output \in LinesUpTo(MaxLines) :
          dh = DhNew("path", "path", output)

DiffNext ==
  GetHunks \/ TemporaryWriteSettles \/ PathsSettled \/ RunDiff
    \/ CleanUpStart \/ CleanUpSettled

DiffSpec == DiffInit /\ [][DiffNext]_vars

\* A bookmark on any line of a file holding the marked text on at most two
\* rows, with or without a peg.
BookmarkInit ==
  /\ localRef = None
  /\ remoteRef = None
  /\ GitIdle
  /\ RunnerIdle
  /\ SrcIdle
  /\ JanIdle
  /\ DhIdle
  /\ LpIdle
  /\ DlIdle
  /\ LsIdle
  /\ ScIdle
  /\ MkIdle
  /\ LiIdle
  /\ FcIdle
  /\ PrIdle
  /\ LtIdle
  /\ CoIdle
  /\ \E marks \in {m \in SUBSET (1..MaxFileLines) : Cardinality(m) <= 2},
        line \in 1..MaxFileLines, peg \in {0} \cup PegLines :
       /\ peg # 0 => line \in PeggedBookmarkLines
       /\ bm = BmNew(marks, line, peg)

BookmarkNext ==
  BmOpen \/ BlameSettles \/ RangeSettles

BookmarkSpec == BookmarkInit /\ [][BookmarkNext]_vars

LinePegInit ==
  /\ localRef = None
  /\ remoteRef = None
  /\ GitIdle
  /\ RunnerIdle
  /\ SrcIdle
  /\ JanIdle
  /\ DhIdle
  /\ BmIdle
  /\ DlIdle
  /\ LsIdle
  /\ ScIdle
  /\ MkIdle
  /\ LiIdle
  /\ FcIdle
  /\ PrIdle
  /\ LtIdle
  /\ CoIdle
  /\ \E currentLine \in 1..MaxFileLines, commit \in GivenCommits :
       lp = LpNew(currentLine, commit)

LinePegNext ==
  LpBlameSettles \/ LpReadsSettle \/ LpHunksSettle

LinePegSpec == LinePegInit /\ [][LinePegNext]_vars

DeletedLogInit ==
  /\ localRef = None
  /\ remoteRef = None
  /\ GitIdle
  /\ RunnerIdle
  /\ SrcIdle
  /\ JanIdle
  /\ DhIdle
  /\ BmIdle
  /\ LpIdle
  /\ LsIdle
  /\ ScIdle
  /\ MkIdle
  /\ LiIdle
  /\ FcIdle
  /\ PrIdle
  /\ LtIdle
  /\ CoIdle
  /\ \E log \in LogsUpTo(MaxLogCommits), trailing \in BOOLEAN :
       dl = DlNew(log, trailing)

DeletedLogNext ==
  DlWrite \/ DlEnd \/ DlExit

DeletedLogSpec == DeletedLogInit /\ [][DeletedLogNext]_vars

ListingInit ==
  /\ localRef = None
  /\ remoteRef = None
  /\ GitIdle
  /\ RunnerIdle
  /\ SrcIdle
  /\ JanIdle
  /\ DhIdle
  /\ BmIdle
  /\ LpIdle
  /\ DlIdle
  /\ ScIdle
  /\ MkIdle
  /\ LiIdle
  /\ FcIdle
  /\ PrIdle
  /\ LtIdle
  /\ CoIdle
  /\ \E listing \in ListingsUpTo(MaxTreeEntries) : ls = LsNew(listing)

ListingNext ==
  LsWrite \/ LsEnd \/ LsExit

ListingSpec == ListingInit /\ [][ListingNext]_vars

SelectInit ==
  /\ localRef = None
  /\ remoteRef = None
  /\ GitIdle
  /\ RunnerIdle
  /\ SrcIdle
  /\ JanIdle
  /\ DhIdle
  /\ BmIdle
  /\ LpIdle
  /\ DlIdle
  /\ LsIdle
  /\ MkIdle
  /\ LiIdle
  /\ FcIdle
  /\ PrIdle
  /\ LtIdle
  /\ CoIdle
  /\ \E n \in 0..MaxCommits : sc = ScNew(n)

SelectNext ==
  ScLoop \/ ScCheckSettles

SelectSpec == SelectInit /\ [][SelectNext]_vars

MktreeInit ==
  /\ localRef = None
  /\ remoteRef = None
  /\ GitIdle
  /\ RunnerIdle
  /\ SrcIdle
  /\ JanIdle
  /\ DhIdle
  /\ BmIdle
  /\ LpIdle
  /\ DlIdle
  /\ LsIdle
  /\ ScIdle
  /\ LiIdle
  /\ FcIdle
  /\ PrIdle
  /\ LtIdle
  /\ CoIdle
  /\ \E entries \in EntryListsUpTo(MaxTreeEntries) : mk = MkNew(entries)

MktreeNext ==
  MkCall \/ MkExit \/ MkTimeout

MktreeSpec == MktreeInit /\ [][MktreeNext]_vars

BlameInit ==
  /\ localRef = None
  /\ remoteRef = None
  /\ GitIdle
  /\ RunnerIdle
  /\ SrcIdle
  /\ JanIdle
  /\ DhIdle
  /\ BmIdle
  /\ LpIdle
  /\ DlIdle
  /\ LsIdle
  /\ ScIdle
  /\ MkIdle
  /\ FcIdle
  /\ PrIdle
  /\ LtIdle
  /\ CoIdle
  /\ \E commit \in {"null", "c0"}, liveContent \in {"undefined", "text"},
        output \in BlameOutputs :
       li = LiNew(commit, liveContent, output)

BlameNext ==
  LiWrite \/ LiExit \/ LiTimeout

BlameSpec == BlameInit /\ [][BlameNext]_vars

PositionInit ==
  /\ localRef = None
  /\ remoteRef = None
  /\ GitIdle
  /\ RunnerIdle
  /\ SrcIdle
  /\ JanIdle
  /\ DhIdle
  /\ BmIdle
  /\ LpIdle
  /\ DlIdle
  /\ LsIdle
  /\ ScIdle
  /\ MkIdle
  /\ LiIdle
  /\ PrIdle
  /\ LtIdle
  /\ CoIdle
  /\ \E soughtLine \in SoughtLines, entries \in BlamesUpTo(MaxBlameEntries) :
       fc = FcNew(soughtLine, entries)

PositionNext ==
  FcWrite \/ FcExit \/ FcTimeout

PositionSpec == PositionInit /\ [][PositionNext]_vars

RoundTripInit ==
  /\ localRef = None
  /\ remoteRef = None
  /\ GitIdle
  /\ RunnerIdle
  /\ SrcIdle
  /\ JanIdle
  /\ DhIdle
  /\ BmIdle
  /\ LpIdle
  /\ DlIdle
  /\ LsIdle
  /\ ScIdle
  /\ MkIdle
  /\ LiIdle
  /\ FcIdle
  /\ LtIdle
  /\ CoIdle
  /\ \E line \in 1..MaxPegLine, edits \in EditListsUpTo(MaxEdits) :
       pr = PrNew(line, diffHunks(edits, 0, 0))

RoundTripNext ==
  PrRange \/ PrPeg \/ PrBack

RoundTripSpec == RoundTripInit /\ [][RoundTripNext]_vars

LatestInit ==
  /\ localRef = None
  /\ remoteRef = None
  /\ GitIdle
  /\ RunnerIdle
  /\ SrcIdle
  /\ JanIdle
  /\ DhIdle
  /\ BmIdle
  /\ LpIdle
  /\ DlIdle
  /\ LsIdle
  /\ ScIdle
  /\ MkIdle
  /\ LiIdle
  /\ FcIdle
  /\ PrIdle
  /\ CoIdle
  /\ \E n \in 0..MaxParents : \E lookups \in [1..n -> LookupResults] :
       lt = LtNew(lookups)

LatestNext ==
  LtRevParse \/ LtLookupSettles \/ LtReduce \/ LtReturn

LatestSpec == LatestInit /\ [][LatestNext]_vars

MalformedLogInit ==
  /\ localRef = None
  /\ remoteRef = None
  /\ GitIdle
  /\ RunnerIdle
  /\ SrcIdle
  /\ JanIdle
  /\ DhIdle
  /\ BmIdle
  /\ LpIdle
  /\ LsIdle
  /\ ScIdle
  /\ MkIdle
  /\ LiIdle
  /\ FcIdle
  /\ PrIdle
  /\ LtIdle
  /\ CoIdle
  /\ \E log \in MalformedLogs(LogsUpTo(MaxLogCommits)), trailing \in BOOLEAN :
       dl = DlNew(log, trailing)

MalformedLogNext ==
  DlWrite \/ DlEnd \/ DlExit \/ DlTimeout

MalformedLogSpec == MalformedLogInit /\ [][MalformedLogNext]_vars

CollaborationInit == Init

CollaborationNext ==
  \/ StartDelete \/ DeleteRevParse
  \/ DeleteGroupCallback
  \/ DeleteGroupsSettled \/ DeleteLsRoot \/ DeleteMkRoot \/ DeleteCommit
  \/ DeletePush \/ DeleteUpdateRef
  \/ OtherShares

CollaborationSpec == CollaborationInit /\ [][CollaborationNext]_vars

-----------------------------------------------------------------------------
(* Properties of shareCasefile, deleteCasefilePaths and getCasefile *)

CallsOf(cmd) == {i \in DOMAIN calls : calls[i].cmd = cmd}
Sharing == op.kind \in {"share", "delete"}

\* The casefiles a shared-casefiles commit holds: every blob below a group.
RECURSIVE BlobsUnder(_, _)
BlobsUnder(tree, prefix) ==
  UNION {IF e.type = "tree"
           THEN BlobsUnder(e.hash, prefix \o e.name \o <<"/">>)
           ELSE {[path |-> prefix \o e.name, mode |-> e.mode, hash |-> e.hash]} :
         e \in tree.entries}
Casefiles(ref) ==
  IF ref.obj = "commit"
    THEN {c \in BlobsUnder(ref.tree, <<>>) : includes(c.path, "/")}
    ELSE {}

\* The entries of the tree at `path` below a ref's commit; none when absent.
EntriesAt(ref, path) ==
  LET o == GitObjectAt(ref, path)
  IN  IF o.obj = "tree" THEN o.entries ELSE {}

C2_ShareIdempotent ==
  (/\ pc = "idle"
   /\ op.kind = "share"
   /\ prev.op = op
   /\ prev.outcome.status = "resolved"
   /\ ~lv.faulted)
    => /\ outcome = Resolved([message |-> "no changes to share", commit |-> localRef])
       /\ calls = <<>>
       /\ localRef = prev.localRef

\* The second of two identical shares has ended; the first shared a change.
C2_Witness ==
  /\ pc = "idle"
  /\ op.kind = "share"
  /\ prev.op = op
  /\ prev.outcome.status = "resolved"
  /\ prev.outcome.value.message = "casefile shared"
  /\ outcome.status = "resolved"
  /\ outcome.value.message = "no changes to share"

\* C3: the commit a fault-free shareCasefile(g/i, B) has pushed holds the previous
\* shared tree with exactly g/i set to a 100644 blob of hash(B): one entry i in
\* group g, the other entries of g and the other top-level entries as they were,
\* and its parents are the previous ref commit, or none when the ref was absent.
C3_ShareFrame ==
  (op.kind = "share" /\ pc = "s_updateRef" /\ ~lv.faulted)
    => LET pushed == calls[Len(calls)].arg
           g == strrpart(op.path, "/", 2)[1]
           i == strrpart(op.path, "/", 2)[2]
       IN  /\ calls[Len(calls)].cmd = "push"
           /\ {e \in EntriesAt(pushed, g) : e.name = i}
                = {TreeEntry("100644", "blob", Blob(JSONstringify(op.bookmarks)), i)}
           /\ {e \in EntriesAt(pushed, g) : e.name # i}
                = {e \in EntriesAt(prev.localRef, g) : e.name # i}
           /\ {e \in EntriesAt(pushed, <<>>) : e.name # g}
                = {e \in EntriesAt(prev.localRef, <<>>) : e.name # g}
           /\ \A e \in EntriesAt(pushed, <<>>) :
                e.name = g => e.mode = "040000" /\ e.type = "tree"
           /\ Cardinality({e \in EntriesAt(pushed, <<>>) : e.name = g}) = 1
           /\ pushed.parents = IF prev.localRef = None THEN <<>> ELSE <<prev.localRef>>

\* A share has pushed a change to a group that had another instance, beside
\* another group.
C3_Witness ==
  /\ op.kind = "share"
  /\ pc = "s_updateRef"
  /\ ~lv.faulted
  /\ prev.localRef # None
  /\ \E e \in EntriesAt(prev.localRef, strrpart(op.path, "/", 2)[1]) :
       e.name # strrpart(op.path, "/", 2)[2]
  /\ \E e \in EntriesAt(prev.localRef, <<>>) : e.name # strrpart(op.path, "/", 2)[1]

\* C4: a fault-free getCasefile(p) that follows a successful shareCasefile(p, B)
\* returns bookmarks B and path p; the blob stored at p parses to {bookmarks: B}
\* and holds no path; and a blob that is the bare array ["m1"] is returned as
\* {bookmarks: ["m1"], path: p}.
C4_RoundTrip ==
  (pc = "idle" /\ op.kind = "get" /\ ~lv.faulted)
    => LET blob == GitObjectAt(localRef, op.path)
       IN  /\ (/\ prev.op.kind = "share"
               /\ prev.op.path = op.path
               /\ prev.outcome.status = "resolved")
                => /\ outcome = Resolved([bookmarks |-> prev.op.bookmarks, path |-> op.path])
                   /\ blob.obj = "blob"
                   /\ "path" \notin Range(blob.content)
                   /\ JSONparse(blob.content)
                        = [isArray |-> FALSE, items |-> <<>>, bookmarks |-> prev.op.bookmarks]
           /\ blob = LegacyBlob
                => outcome = Resolved([bookmarks |-> <<"m1">>, path |-> op.path])

\* A getCasefile has returned the bookmarks the share before it stored.
C4_Witness ==
  /\ pc = "idle"
  /\ op.kind = "get"
  /\ ~lv.faulted
  /\ prev.op.kind = "share"
  /\ prev.op.path = op.path
  /\ prev.op.bookmarks = <<"m1", "m2">>
  /\ prev.outcome.status = "resolved"
  /\ prev.outcome.value.message = "casefile shared"
  /\ outcome.status = "resolved"

\* A tree of groups none of which is left without an entry.
NoEmptyGroup(ref) ==
  \A e \in EntriesAt(ref, <<>>) : e.type = "tree" => e.hash.entries # {}

\* C5: the commit a fault-free deleteCasefilePaths has pushed holds exactly the
\* casefiles of the previous shared tree that were not requested, and no group
\* without an instance.
C5_DeleteRemovesRequested ==
  (op.kind = "delete" /\ pc = "d_updateRef" /\ ~lv.faulted)
    => LET pushed == calls[Len(calls)].arg
       IN  /\ Casefiles(pushed)
                = {c \in Casefiles(prev.localRef) : ~inPaths(op.paths, c.path)}
           /\ NoEmptyGroup(pushed)

\* C6: a fault-free deleteCasefilePaths(P') that follows a successful, fault-free
\* deleteCasefilePaths(P) with P' a subset of P, or that finds the shared ref
\* absent or none of its paths in the shared tree, calls no mktree, commit-tree,
\* push or update-ref.
C6_DeleteMonotone ==
  (/\ pc = "idle"
   /\ op.kind = "delete"
   /\ ~lv.faulted
   /\ \/ /\ prev.op.kind = "delete"
         /\ prev.outcome.status = "resolved"
         /\ ~prev.faulted
         /\ Range(op.paths) \subseteq Range(prev.op.paths)
      \/ prev.localRef = None
      \/ \A c \in Casefiles(prev.localRef) : ~inPaths(op.paths, c.path))
    => /\ calls = <<>>
       /\ outcome = Resolved(None)
       /\ localRef = prev.localRef

\* Every casefile of the shared tree is requested, and every group is a
\* top-level entry of the tree.
RequestsEverything ==
  /\ Casefiles(prev.localRef) # {}
  /\ \A c \in Casefiles(prev.localRef) :
       inPaths(op.paths, c.path) /\ ~includes(strrpart(c.path, "/", 2)[1], "/")

\* The new root that deleteCasefilePaths has computed has no entries.
RootEmptied ==
  /\ op.kind = "delete"
  /\ pc \in {"d_push", "d_updateRef", "idle"}
  /\ lv.rootTreeEntries = <<>>
  /\ lv.newCommit = EmptyString

\* C7: a fault-free deleteCasefilePaths that is asked for every casefile of the
\* shared tree computes a root with no entries; and whenever the computed root
\* has no entries, the operation has called no mktree for it and no commit-tree,
\* it pushes the source "" to refs/collaboration/shared-casefiles without force,
\* and the update-ref that follows the push is given "".
C7_DeleteEverything ==
  /\ (/\ op.kind = "delete"
      /\ pc \in {"d_mkRoot", "d_commit", "d_push", "d_updateRef"}
      /\ ~lv.faulted
      /\ RequestsEverything) => RootEmptied
  /\ RootEmptied
    => /\ CallsOf("commit-tree") = {}
       /\ \A i \in CallsOf("mktree") : calls[i].ok => calls[i].arg # gitEmptyTree
       /\ pc = "d_push" => CallsOf("push") = {} /\ lv.newCommit = EmptyString
       /\ \A i \in CallsOf("push") :
            calls[i].arg = EmptyString /\ calls[i].dest = sharedCasefilesRef
                                       /\ ~calls[i].force
       /\ \A i \in CallsOf("update-ref") : calls[i].arg = EmptyString
       /\ (pc = "d_updateRef") => CallsOf("push") # {}
       /\ (pc = "idle" /\ "push" \notin lv.failed) => CallsOf("update-ref") # {}

\* Every casefile was deleted: "" was pushed and handed to update-ref.
C7_Witness ==
  /\ RootEmptied
  /\ pc = "idle"
  /\ RequestsEverything
  /\ CallsOf("push") # {}
  /\ CallsOf("update-ref") # {}
  /\ remoteRef = None

-----------------------------------------------------------------------------
(* Properties of the command runner *)

\* The child has exited and, when stdout is captured, its consumer has closed.
BothHappened ==
  /\ rIn.active
  /\ child.proc = "exited"
  /\ rIn.stdout => child.stream = "closed"

\* C8: the invocation is resolved only when the child has emitted exit and, if
\* stdout is captured, the consumer stream has closed; and once both have
\* happened, in whichever order, the execution promise is settled: the exit
\* alone settles it when stdout is not captured.
C8_ResolvesAfterBoth ==
  /\ invocation.status = "resolved" => BothHappened
  /\ execution.status = "resolved" => BothHappened
  /\ BothHappened => execution.status # "pending"
  /\ (BothHappened /\ execution.status = "resolved") => invocation.status # "pending"

\* A capturing invocation has resolved.
C8_Witness ==
  /\ rIn.stdout
  /\ BothHappened
  /\ invocation.status = "resolved"
  /\ execution.status = "resolved"

\* The settlement stepExit owes to the options and the exit code.
ExpectedSettlement ==
  IF rIn.mode = "exit" THEN Resolved(ExitValue(closesComplete.process))
  ELSE IF Truthy(closesComplete.process)
    THEN [status |-> "rejected", value |-> closesComplete.process,
          code |-> "ChildProcessFailure"]
  ELSE IF rIn.mode = "makeResult" THEN Resolved(MakeResultValue)
  ELSE Resolved(ResultValue)

\* C9: no callback is called before exit and close have both happened.  Once they
\* have: with `exit`, it was called once with the exit code, makeResult was not
\* called, and its return value is the result; without it a non-zero code
\* rejects with ChildProcessFailure carrying the code and makeResult was not
\* called; otherwise makeResult was called once and gave the result, or `result`
\* is the result.  (An invocation that a consumer error or the timeout already
\* rejected stays rejected.)
C9_ResultPrecedence ==
  /\ ~BothHappened => cb.exit = 0 /\ cb.makeResult = 0
  /\ BothHappened =>
       /\ cb.exit = IF rIn.mode = "exit" THEN 1 ELSE 0
       /\ rIn.mode = "exit" => cb.exitArg = closesComplete.process
       /\ cb.makeResult =
            IF rIn.mode = "makeResult" /\ ~Truthy(closesComplete.process) THEN 1 ELSE 0
       /\ \/ execution = ExpectedSettlement
          \/ execution.code = "ConsumerError"
       /\ \/ invocation = ExpectedSettlement
          \/ invocation.code \in {"ConsumerError", "Timeout"}

\* An invocation given `exit` has resolved with its return value for a non-zero code.
C9_Witness ==
  /\ BothHappened
  /\ rIn.mode = "exit"
  /\ closesComplete.process = JSNum(1)
  /\ cb.exit = 1
  /\ invocation = Resolved(ExitValue(JSNum(1)))

\* C10: when the timer of a positive timeout fires on a pending invocation, the
\* invocation rejects with Timeout and the child is left as it is; a settled
\* invocation never changes; and an invocation with no timeout is never
\* rejected with Timeout.
C10_Timeout ==
  /\ [](rIn.timeout = 0 => invocation.code # "Timeout" /\ timer = "none")
  /\ [](child.proc # "killed")
  /\ [][(timer = "armed" /\ timer' = "fired")
          => /\ rIn.timeout > 0
             /\ child' = child
             /\ invocation.status = "pending" => invocation' = Rejected("Timeout")]_vars
  /\ [][(rIn.active /\ invocation.status # "pending") => invocation' = invocation]_vars

\* The child exited after the timeout had rejected the invocation.
C10_Witness ==
  /\ timer = "fired"
  /\ invocation = Rejected("Timeout")
  /\ child.proc = "exited"
  /\ execution.status = "resolved"

-----------------------------------------------------------------------------
(* Properties of SeparatedRecordConsumer *)

\* The records with the separators matched after them put back.
RECURSIVE Rejoined(_, _)
Rejoined(records, seps) ==
  IF records = <<>>
    THEN <<>>
    ELSE Head(records) \o (IF seps = <<>> THEN <<>> ELSE Head(seps))
           \o Rejoined(Tail(records), IF seps = <<>> THEN <<>> ELSE Tail(seps))

C12_Concatenation ==
  src.stoppedAt = 0
    => /\ Len(src.records) = Len(src.seps) + (IF src.flushed THEN 1 ELSE 0)
       /\ Rejoined(src.records, src.seps) \o src.carryover = src.consumed

C12_Flush ==
  (~src.ended /\ src'.ended /\ ~src.destroyed)
    => /\ src'.carryover = <<>>
       /\ src'.records = IF src.carryover # <<>>
                           THEN Append(src.records, src.carryover)
                           ELSE src.records

\* C12: while no handler has stopped the stream, the records emitted, with
\* the separators put back after them, followed by the carryover, are the
\* input written so far; the final flush emits a non-empty carryover as
\* exactly one more record and emits nothing for an empty carryover.
C12_RecordsAreTheInput ==
  []C12_Concatenation /\ [][C12_Flush]_vars

\* A stream given two NUL-separated records, the second without a trailing
\* separator, and ended.
C12_Witness ==
  /\ src.ended
  /\ src.stoppedAt = 0
  /\ src.flushed
  /\ src.separator = NulSeparator
  /\ src.consumed = <<"a", NUL, "a">>
  /\ src.records = <<<<"a">>, <<"a">>>>

\* The records a stream emits when input is written to it as one chunk
\* and the stream is ended.
recordsOfOneChunk(separator, input) ==
  final(write(SrcNew(separator, <<>>, 0), input)).records

\* C13: after the final flush, the records emitted for an input are those
\* emitted when the input is written as a single chunk, however the input
\* was split into chunks, for the NUL separator and for the line pattern.
C13_ChunkIndependence ==
  (src.ended /\ src.stoppedAt = 0 /\ src.pending = <<>>)
    => src.records = recordsOfOneChunk(src.separator, src.consumed)

\* C14: once a handler has called stop, no further record is emitted.
C14_NoRecordAfterStop ==
  src.stoppedAt > 0 => Len(src.records) = src.stoppedAt

-----------------------------------------------------------------------------
(* Properties of Janitor *)

Reverse(s) == [i \in 1..Len(s) |-> s[Len(s) + 1 - i]]

SelectTasks(tasks, kinds) == SelectSeq(tasks, LAMBDA t : t.kind \in kinds)

\* The value a failing task leaves in the errors: the value it threw or
\* rejected with, carrying the task when it is an object.
Attached(task) ==
  IF task.value.type = "object" THEN [task.value EXCEPT !.task = task.id] ELSE task.value

ExpectedErrors(failing) == [i \in 1..Len(failing) |-> Attached(failing[i])]

\* C15: cleanUpSync calls every task once, last added first, whatever the
\* earlier ones threw, leaves no task registered, and returns when no task
\* threw, throws the one thrown value (carrying its task) when one threw,
\* and throws MultipleCleanupErrors holding all thrown values otherwise.
C15_CleanUpSync ==
  (jan.phase = "cleaned" /\ jan.last.mode = "sync")
    => LET throwing == Reverse(SelectTasks(jan.last.tasks, {"throw"}))
           errors == ExpectedErrors(throwing)
       IN  /\ jan.last.called = Reverse([i \in 1..Len(jan.last.tasks) |-> jan.last.tasks[i].id])
           /\ jan.tasks = <<>>
           /\ jan.last.outcome = _handleErrors(errors)

\* C16: cleanUpAsync invokes every task and fails exactly when a task threw
\* or rejected: with that one value when one did, with
\* MultipleCleanupErrors when two or more did.
JanClass(result) ==
  IF result.status = "returned" THEN "none"
  ELSE IF result.value.code = "MultipleCleanupErrors" THEN "multiple" ELSE "single"

ExpectedClass(tasks) ==
  LET n == Len(SelectTasks(tasks, {"throw", "reject"}))
  IN  IF n = 0 THEN "none" ELSE IF n = 1 THEN "single" ELSE "multiple"

C16_CleanUpAsync ==
  (jan.phase = "cleaned" /\ jan.last.mode = "async")
    => /\ {jan.last.called[i] : i \in DOMAIN jan.last.called}
            = {jan.last.tasks[i].id : i \in DOMAIN jan.last.tasks}
       /\ JanClass(jan.last.outcome) = ExpectedClass(jan.last.tasks)

-----------------------------------------------------------------------------
(* Properties of DiffInteraction.getHunks *)

\* C17: once getHunks has settled and no temporary write it started is
\* still in flight, no temp file it created remains.
C17_NoTempFileRemains ==
  (dh.pc = "done" /\ \A i \in 1..2 : dh.paths[i] # "writing")
    => dh.files = {}

\* The Change the header `@@ -S[,L] +T[,M] @@` stands for.
SideOf(start, count) ==
  IF count = 0 THEN <<start + 1, start + 1>>
  ELSE <<start, start + (IF count < 0 THEN 1 ELSE count)>>

ChangeOf(line) ==
  [baseStart |-> SideOf(line.S, line.L)[1], baseEnd |-> SideOf(line.S, line.L)[2],
   currentStart |-> SideOf(line.T, line.M)[1], currentEnd |-> SideOf(line.T, line.M)[2]]

ExpectedChanges(output) ==
  LET headers == SelectSeq(output, LAMBDA l : l.kind = "header")
  IN  [i \in 1..Len(headers) |-> ChangeOf(headers[i])]

\* C18: the hunks getHunks resolves to are the Changes of the hunk headers
\* diff printed, in the order printed, other lines giving none; a count of
\* 0 gives start = end = the line after; start <= end on both sides.
C18_HunksOfHeaders ==
  dh.result.status = "fulfilled"
    => /\ dh.result.hunks = ExpectedChanges(dh.output)
       /\ \A i \in DOMAIN dh.result.hunks :
            /\ dh.result.hunks[i].baseStart <= dh.result.hunks[i].baseEnd
            /\ dh.result.hunks[i].currentStart <= dh.result.hunks[i].currentEnd

\* An insertion after line 12 (count 0 on the base side), between a text
\* line and nothing else, parsed into one Change.
C18_Witness ==
  /\ dh.pc = "done"
  /\ dh.result.status = "fulfilled"
  /\ Len(dh.output) = 2
  /\ dh.output[1].kind = "text"
  /\ dh.output[2] = HeaderLine(12, 0, 3, -1)
  /\ dh.result.hunks = <<[baseStart |-> 13, baseEnd |-> 13, currentStart |-> 3, currentEnd |-> 4]>>

-----------------------------------------------------------------------------
(* Properties of BookmarkFacilitator.currentLocation *)

TheMarkedRow == CHOOSE r \in bm.marks : TRUE
ColumnIn(r) == IF r % 2 = 0 THEN 1 ELSE 2
Distance(a, b) == IF a >= b THEN a - b ELSE b - a

\* C19 as stated: when the marked text is on exactly one row,
\* currentLocation resolves to that row, whatever the bookmark's line and
\* peg.
C19_UniqueLineReturned ==
  (bm.pc = "done" /\ Cardinality(bm.marks) = 1)
    => /\ bm.result.status = "resolved"
       /\ bm.result.line = TheMarkedRow
       /\ bm.result.col = ColumnIn(TheMarkedRow)

\* C19 amended: when the marked text is on exactly one row, currentLocation
\* resolves to no other row, and it resolves to that row, with the
\* column of the text in it, whenever the row is within
\* UNTRACKED_WINDOW_SIZE lines of the bookmark's line, with any peg or none.
C19_UniqueLineWithinWindow ==
  (bm.pc = "done" /\ Cardinality(bm.marks) = 1)
    => /\ bm.result.status = "resolved"
            => /\ bm.result.line = TheMarkedRow
               /\ bm.result.col = ColumnIn(TheMarkedRow)
       /\ Distance(TheMarkedRow, bm.line) <= UNTRACKED_WINDOW_SIZE
            => bm.result.status = "resolved"

\* A pegged bookmark whose text is 15 lines below the bookmark's line, found
\* after the blame lookup failed.
C19_Witness ==
  /\ bm.pc = "done"
  /\ bm.marks = {16}
  /\ bm.line = 1
  /\ bm.peg = 6
  /\ "SpawnFailure" \in bm.logged
  /\ bm.result = [status |-> "resolved", line |-> 16, col |-> 1, code |-> ""]

\* C20: whatever the blame lookup, the base blob read and the diff did,
\* the promise of currentLocation is never rejected by anything but
\* MarkNotFound, and once its promise chain has run it is settled: resolved
\* with a line of the file or rejected by MarkNotFound.
C20_SettlesWithLocationOrMarkNotFound ==
  /\ bm.result.status = "rejected" => bm.result.code = "MarkNotFound"
  /\ bm.pc = "done"
       => \/ bm.result.status = "resolved" /\ bm.result.line \in DOMAIN bm.file
          \/ bm.result.status = "rejected"

\* A pegged bookmark whose blame lookup failed to spawn, whose text is
\* nowhere in the file, rejected with MarkNotFound.
C20_Witness ==
  /\ bm.pc = "done"
  /\ bm.peg # 0
  /\ bm.marks = {}
  /\ "SpawnFailure" \in bm.logged
  /\ bm.result.status = "rejected"
  /\ bm.result.code = "MarkNotFound"

\* The marked rows within UNTRACKED_WINDOW_SIZE lines of the bookmark's line,
\* and the nearest of them, the one below the line winning a tie.
RowsNear == {r \in bm.marks : Distance(r, bm.line) <= UNTRACKED_WINDOW_SIZE}
NearestRow ==
  LET d == CHOOSE n \in {Distance(r, bm.line) : r \in RowsNear} :
             \A r \in RowsNear : n <= Distance(r, bm.line)
  IN  IF bm.line + d \in RowsNear THEN bm.line + d ELSE bm.line - d

\* C21: without a peg, currentLocation resolves to the row holding the text
\* that is nearest to the bookmark's line within UNTRACKED_WINDOW_SIZE lines,
\* line + i before line - i, and rejects by MarkNotFound when there is none.
C21_NearestWithinWindow ==
  (bm.pc = "done" /\ bm.peg = 0)
    => IF RowsNear = {}
         THEN bm.result.status = "rejected" /\ bm.result.code = "MarkNotFound"
         ELSE /\ bm.result.status = "resolved"
              /\ bm.result.line = NearestRow
              /\ bm.result.col = ColumnIn(NearestRow)

\* A bookmark without peg on line 5, the text on lines 3 and 7: line 7 wins.
C21_Witness ==
  /\ bm.pc = "done"
  /\ bm.peg = 0
  /\ bm.line = 5
  /\ bm.marks = {3, 7}
  /\ bm.result = [status |-> "resolved", line |-> 7, col |-> 2, code |-> ""]

\* The marked rows the search of the range tries: prime itself, rows from
\* start up to prime, rows after prime before end; and the one it reports:
\* the nearest to prime, the row before prime winning a tie.
RowsInRange ==
  {r \in bm.marks : \/ r = bm.range.prime
                    \/ bm.range.start <= r /\ r < bm.range.prime
                    \/ bm.range.prime < r /\ r < bm.range.end}
NearestInRange ==
  LET d == CHOOSE n \in {Distance(r, bm.range.prime) : r \in RowsInRange} :
             \A r \in RowsInRange : n <= Distance(r, bm.range.prime)
  IN  IF bm.range.prime - d \in RowsInRange THEN bm.range.prime - d ELSE bm.range.prime + d

ResolvedAt(r) ==
  bm.result.status = "resolved" /\ bm.result.line = r /\ bm.result.col = ColumnIn(r)

\* C30: with a peg, the line blame gave is reported when it holds the text,
\* whatever other rows hold it; otherwise a warning is logged if blame gave
\* a line, and the range is searched from prime outwards; the window around
\* the bookmark's line is searched only when the range holds no text.
C30_StrategiesInOrder ==
  (bm.pc = "done" /\ bm.peg # 0)
    => IF bm.blame # 0 /\ bm.blame \in bm.marks
         THEN ResolvedAt(bm.blame) /\ bm.range = NoRange
         ELSE /\ bm.blame # 0 => "warn: blame was wrong" \in bm.logged
              /\ IF RowsInRange # {} THEN ResolvedAt(NearestInRange)
                 ELSE IF RowsNear # {} THEN ResolvedAt(NearestRow)
                 ELSE bm.result.status = "rejected" /\ bm.result.code = "MarkNotFound"

\* Blame pointed at a line without the text; the range 2..5 around prime 2
\* holds the text on line 4, the bookmark's own line 7 holds it too: line 4
\* is reported.
C30_Witness ==
  /\ bm.pc = "done"
  /\ bm.peg = 2
  /\ bm.line = 7
  /\ bm.marks = {4, 7}
  /\ bm.blame = 1
  /\ bm.range = [start |-> 2, prime |-> 2, end |-> 5]
  /\ bm.result = [status |-> "resolved", line |-> 4, col |-> 1, code |-> ""]

-----------------------------------------------------------------------------
(* Properties of BookmarkFacilitator.computeLinePeg *)

\* C22: computeLinePeg never rejects; it resolves with what lineIntroduction
\* resolved with, and when that failed and resolving the commit, a read or
\* the hunks failed, with the current line and no commit.
C22_NeverRejects ==
  /\ lp.result.status # "rejected"
  /\ lp.pc = "done"
       => /\ lp.result.status = "resolved"
          /\ lp.intro.status = "resolved" => lp.result = lp.intro
          /\ lp.failed # ""
               => lp.result = [status |-> "resolved", line |-> lp.currentLine, commit |-> ""]

\* Blame failed, the reads succeeded, getHunks failed: the line of a
\* bookmark on line 9 with a given commit is returned without the commit.
C22_Witness ==
  /\ lp.pc = "done"
  /\ lp.intro.status = "rejected"
  /\ lp.failed = "hunks"
  /\ lp.commit = "c1"
  /\ lp.currentLine = 9
  /\ lp.result = [status |-> "resolved", line |-> 9, commit |-> ""]

-----------------------------------------------------------------------------
(* Properties of GitInteraction.getDeletedCasefileRefs *)

\* One entry per deleted path of the log, in the order printed, with the
\* hash and the date of its commit.
RECURSIVE ExpectedDeleted(_)
ExpectedDeleted(log) ==
  IF log = <<>>
    THEN <<>>
    ELSE [i \in 1..Len(Head(log).paths) |->
            [commit |-> Head(log).commit,
             committed |-> <<Head(log).date, SP, "time", SP, "zone">>,
             path |-> <<Head(log).paths[i]>>]]
           \o ExpectedDeleted(Tail(log))

\* C23: however the log is cut into chunks, getDeletedCasefileRefs returns
\* one entry per deleted path, in stream order, with the hash and date of
\* the commit the path is listed under; on a non-zero exit it returns [].
C23_DeletedRefs ==
  dl.pc = "done"
    => dl.result = IF dl.exitCode = 0 THEN ExpectedDeleted(dl.log) ELSE <<>>

\* Two commits, the second deleting two paths, parsed into three entries.
C23_Witness ==
  /\ dl.pc = "done"
  /\ dl.exitCode = 0
  /\ Len(dl.log) = 2
  /\ dl.log[2].paths = <<"p2", "p1">>
  /\ Len(dl.result) = 3
  /\ dl.result[3].commit = dl.log[2].commit
  /\ dl.result[3].path = <<"p1">>

-----------------------------------------------------------------------------
(* Properties of GitInteraction.getListOfCasefiles *)

RightMostSlash(name) ==
  LET at == {0} \cup {k \in 1..Len(name) : name[k] = SLASH}
  IN  CHOOSE k \in at : \A j \in at : j <= k

\* The group of a name: everything before its right-most '/'.
GroupOf(name) == SubSeq(name, 1, RightMostSlash(name) - 1)

\* An entry of mode 100644 and type blob named <group>/<instance>, the
\* group being free of line terminators.
KeptEntry(e) ==
  /\ e.mode = "100644"
  /\ e.type = "blob"
  /\ RightMostSlash(e.name) > 1
  /\ RightMostSlash(e.name) < Len(e.name)
  /\ \A i \in 1..Len(GroupOf(e.name)) : GroupOf(e.name)[i] # LF

KeptPaths(listing) ==
  LET kept == SelectSeq(listing, KeptEntry)
  IN  [i \in 1..Len(kept) |-> [path |-> kept[i].name]]

RECURSIVE AllInstances(_)
AllInstances(casefiles) ==
  IF casefiles = <<>> THEN <<>>
  ELSE Head(casefiles).instances \o AllInstances(Tail(casefiles))

\* C24: at exit 0 the groups returned hold, in ls-tree order, exactly the
\* entries of mode 100644 and type blob named <group>/<instance>; every group
\* is named by what precedes the right-most '/' of its instances; adjacent
\* groups differ in name, so that consecutive entries of one group name are
\* one group and entries of one group name apart from each other are
\* separate groups; a non-zero exit returns [].
C24_GroupsOfAdjacentEntries ==
  ls.pc = "done"
    => IF ls.exitCode # 0
         THEN ls.result = <<>>
         ELSE /\ AllInstances(ls.result) = KeptPaths(ls.listing)
              /\ \A g \in 1..Len(ls.result) :
                   /\ ls.result[g].instances # <<>>
                   /\ \A i \in 1..Len(ls.result[g].instances) :
                        GroupOf(ls.result[g].instances[i].path) = ls.result[g].name
                   /\ g > 1 => ls.result[g - 1].name # ls.result[g].name

\* a/x, a/b/x, a/y: group a is returned twice, around group a/b.
C24_Witness ==
  /\ ls.pc = "done"
  /\ ls.exitCode = 0
  /\ Len(ls.listing) = 3
  /\ Len(ls.result) = 3
  /\ ls.result[1].name = <<"a">>
  /\ ls.result[2].name = <<"a", SLASH, "b">>
  /\ ls.result[3].name = <<"a">>

-----------------------------------------------------------------------------
(* Properties of GitInteraction.selectCommitsUnknownToRemote *)

InFlight == {k \in 1..sc.n : sc.checks[k] = "running"}
CheckSettled(k) == sc.checks[k] \in CheckSettlements

\* The slice of eight a commit belongs to, counted from 0.
SliceOf(k) == (k - 1) \div 8

\* C25: never more than 8 checks are in flight; the checks run slice by
\* slice of 8 consecutive commits, a check running only once every check of
\* the slices before has settled; a call that resolves does so with the
\* commits whose check reported no output, in input order, every check
\* having settled without rejection; a rejected check of the awaited slice
\* rejects the call.
C25_SlicesOfEight ==
  /\ Cardinality(InFlight) <= 8
  /\ \A k \in 1..sc.n :
       sc.checks[k] # "unstarted"
         => \A j \in 1..sc.n :
              /\ SliceOf(j) < SliceOf(k) => CheckSettled(j)
              /\ SliceOf(j) = SliceOf(k) => sc.checks[j] # "unstarted"
  /\ sc.pc = "resolved"
       => /\ \A k \in 1..sc.n : sc.checks[k] \in {"known", "unknown"}
          /\ sc.result = newResults(sc.checks, 1, sc.n)
  /\ (\E k \in 1..sc.n : sc.checks[k] = "rejected") => sc.pc = "rejected"

\* Nine commits: the ninth is checked alone in a second slice, after the
\* first eight settled, and the call resolves with the unknown ones.
C25_Witness ==
  /\ sc.n = 9
  /\ sc.pc = "resolved"
  /\ sc.result = <<2, 9>>

-----------------------------------------------------------------------------
(* Properties of GitInteraction.mktree *)

InvalidTreeResults == {None, EmptyString, gitEmptyTree}

\* mktree rejects with InvalidTreeEntry without invoking git when an entry
\* name contains '/', and never resolves with an empty string or with the
\* hash of the empty tree.
C26_BadNamesAndNoEmptyResult ==
  /\ (\E i \in DOMAIN mk.entries : includes(mk.entries[i].name, SLASH))
       => /\ ~mk.invoked
          /\ mk.pc = "done" => mk.outcome = Rejected("InvalidTreeEntry")
  /\ mk.outcome.status = "resolved" => mk.outcome.value \notin InvalidTreeResults

\* C26: mktree rejects with InvalidTreeEntry without invoking git when an
\* entry name contains '/'; it never resolves with an empty string or with
\* the hash of the empty tree: when git has exited with code 0 having
\* printed such a result, the call settles rejected with InvalidTreeResult.
C26_MktreeRejections ==
  /\ C26_BadNamesAndNoEmptyResult
  /\ (mk.exited /\ mk.exitCode = 0 /\ mk.result \in InvalidTreeResults
        /\ mk.outcome.status # "pending")
       => mk.outcome = Rejected("InvalidTreeResult")

-----------------------------------------------------------------------------
(* Properties of the ASSERT_ERROR marker *)

\* C27: in shareCasefile, deleteCasefilePaths and
\* findLatestCommitParentWithPath no error carrying the ASSERT_ERROR marker
\* is among the errors a handler recovered from; once such an error struck
\* a step the operation recovers from otherwise, the operation is rejected
\* and has called neither push nor update-ref.
C27_MarkedErrorsReject ==
  /\ "BadOptionsKey" \notin lv.recovered
  /\ lv.asserted
       => /\ outcome.status = "rejected"
          /\ CallsOf("push") = {}
          /\ CallsOf("update-ref") = {}

\* deleteCasefilePaths has ended rejected with the marked error that struck
\* the ls-tree of one group, another group's ls-tree failure having been
\* recovered from.
C27_Witness ==
  /\ op.kind = "delete"
  /\ pc = "idle"
  /\ lv.asserted
  /\ "ls-tree" \in lv.failed
  /\ "ls-tree" \in lv.caught
  /\ outcome = Rejected("BadOptionsKey")

-----------------------------------------------------------------------------
(* Properties of GitInteraction.lineIntroduction *)

\* What the first line of the output says.
FirstLineResult(output) ==
  IF output = <<>> \/ output[1][1] \in {ZeroSha40, ZeroSha64}
    THEN Rejected("NoCommitFound")
    ELSE Resolved([commit |-> <<output[1][1]>>, line |-> Num(7)])

\* The content is fed to stdin, with --contents -, exactly when no commit
\* is given and liveContent is defined.
C28_LiveContentFed ==
  /\ li.fedStdin <=> (li.commit = "null" /\ li.liveContent # "undefined")
  /\ li.contents <=> li.fedStdin

\* A call that resolves does so with the commit and line of the first line.
C28_ResolvedFromFirstLine ==
  li.outcome.status = "resolved" => li.outcome = FirstLineResult(li.output)

\* C28: the call settles as the first line of the blame output says, whatever
\* lines follow and however the output is chunked: resolved with the commit
\* and line of the first line, rejected with NoCommitFound when its sha is
\* all zeroes or there is no output; liveContent is fed to stdin, with
\* --contents -, only when no commit is given and liveContent is defined.
C28_LineIntroduction ==
  /\ C28_LiveContentFed
  /\ (li.exited /\ li.outcome.status # "pending")
       => li.outcome = FirstLineResult(li.output)

-----------------------------------------------------------------------------
(* Properties of GitInteraction.findCurrentLinePosition *)

\* The entries of the commit sought whose span holds the line sought.
Holding ==
  {i \in DOMAIN fc.entries :
     /\ fc.entries[i].sha = fc.commit
     /\ fc.entries[i].sourceline <= fc.soughtLine
     /\ fc.soughtLine < fc.entries[i].sourceline + fc.entries[i].span}
FirstHolding == CHOOSE i \in Holding : \A j \in Holding : i <= j

\* C29: the promise settles once, later resolve and reject calls leaving it
\* as the first left it; when it is resolved, it is with resultline +
\* (soughtLine - sourceline) of the first entry of the commit whose span
\* holds the line sought; when the stream has ended with exit code 0 and no
\* entry holds it, the promise is rejected with LineNotFound.
C29_FirstHoldingEntry ==
  /\ fc.attempts # <<>> => fc.outcome = fc.attempts[1]
  /\ fc.attempts = <<>> => fc.outcome = Pending
  /\ fc.outcome.status = "resolved"
       => /\ Holding # {}
          /\ fc.outcome.value = fc.entries[FirstHolding].resultline
                                  + (fc.soughtLine - fc.entries[FirstHolding].sourceline)
  /\ (fc.exited /\ fc.exitCode = 0 /\ Holding = {})
       => fc.outcome = Rejected("LineNotFound")
  /\ (fc.exited /\ Holding # {}) => fc.outcome.status = "resolved"

\* Two entries of the commit hold line 5, at result lines 11 and 2: the
\* call resolved with 12, from the first, though the handler resolved again
\* at the second and makeResult rejected at the exit.
C29_Witness ==
  /\ fc.pc = "done"
  /\ fc.soughtLine = 5
  /\ Len(fc.entries) = 2
  /\ fc.entries[1].resultline = 11
  /\ fc.entries[2].resultline = 2
  /\ Len(fc.attempts) = 3
  /\ fc.outcome = Resolved(12)

-----------------------------------------------------------------------------
(* Properties of computeCurrentLineRange outside the hunks *)

\* No hunk has baseStart <= line < baseEnd.
OutsideAllHunks(line, hunks) ==
  \A i \in DOMAIN hunks : ~(hunks[i].baseStart <= line /\ line < hunks[i].baseEnd)

\* A pure insertion placed before the line itself.
InsertedAt(line, hunks) ==
  \E i \in DOMAIN hunks : hunks[i].baseStart = line /\ hunks[i].baseEnd = line

\* currentEnd - baseEnd of the last hunk located before the line, 0 if none.
OffsetBefore(line, hunks) ==
  LET before == {i \in DOMAIN hunks : hunks[i].baseEnd <= line}
  IN  IF before = {}
        THEN 0
        ELSE LET last == CHOOSE i \in before : \A j \in before : j <= i
             IN  hunks[last].currentEnd - hunks[last].baseEnd

ShiftedLine(line, hunks) ==
  [start |-> line + OffsetBefore(line, hunks),
   prime |-> line + OffsetBefore(line, hunks),
   end |-> line + OffsetBefore(line, hunks) + 1]

\* C31 as stated: whenever the peg line lies outside all hunks, the range
\* is the one line at line + currentOffset.
C31_OutsideAllHunksShifted ==
  (pr.pc = "ranged" /\ OutsideAllHunks(pr.line, pr.hunks))
    => pr.range = ShiftedLine(pr.line, pr.hunks)

\* C31 amended: whenever the peg line lies outside all hunks and no pure
\* insertion has baseStart equal to the line, the range is the one line at
\* line + currentOffset; a pure insertion at the line gives the inserted
\* lines, with prime at their middle.
C31_OutsideHunksAndInsertions ==
  pr.pc = "ranged" =>
    /\ (OutsideAllHunks(pr.line, pr.hunks) /\ ~InsertedAt(pr.line, pr.hunks))
         => pr.range = ShiftedLine(pr.line, pr.hunks)
    /\ \A i \in DOMAIN pr.hunks :
         (pr.hunks[i].baseStart = pr.line /\ pr.hunks[i].baseEnd = pr.line)
           => pr.range = [start |-> pr.hunks[i].currentStart,
                          prime |-> (pr.hunks[i].currentStart
                                       + pr.hunks[i].currentEnd) \div 2,
                          end |-> pr.hunks[i].currentEnd]

\* A line after a hunk that moved it, outside every hunk.
C31_Witness ==
  /\ pr.pc = "ranged"
  /\ OutsideAllHunks(pr.line, pr.hunks)
  /\ ~InsertedAt(pr.line, pr.hunks)
  /\ OffsetBefore(pr.line, pr.hunks) # 0
  /\ Len(pr.hunks) = 2
  /\ pr.range.start = pr.line + OffsetBefore(pr.line, pr.hunks)

-----------------------------------------------------------------------------
(* Properties of computeLinePeg outside the hunks *)

\* No hunk's current range holds the line.
OutsideCurrentRanges(currentLine, hunks) ==
  \A i \in DOMAIN hunks :
    ~(hunks[i].currentStart <= currentLine /\ currentLine < hunks[i].currentEnd)

\* currentEnd - baseEnd of the last hunk that precedes the current line.
OffsetOfPreceding(currentLine, hunks) ==
  LET before == {i \in DOMAIN hunks : hunks[i].currentEnd <= currentLine}
  IN  IF before = {}
        THEN 0
        ELSE LET last == CHOOSE i \in before : \A j \in before : j <= i
             IN  hunks[last].currentEnd - hunks[last].baseEnd

\* The diff path of computeLinePeg ran to its end.
LpDiffed == lp.pc = "done" /\ lp.intro.status = "rejected" /\ lp.failed = ""

LpResolvedCommit == IF lp.commit = "" THEN HeadCommit ELSE lp.commit

\* The line of the peg outside the hunks is currentLine less the offset of
\* the hunks that precede it.
C32_LineLessOffset ==
  (LpDiffed /\ OutsideCurrentRanges(lp.currentLine, lp.hunks))
    => lp.result.line = lp.currentLine - OffsetOfPreceding(lp.currentLine, lp.hunks)

\* C32: when lineIntroduction fails, the commit and both contents are
\* obtained and no hunk's current range holds currentLine, the peg has the
\* resolved commit (HEAD when none was given) and the line currentLine less
\* the offset of the preceding hunks.
C32_PegOutsideHunksHasCommit ==
  (LpDiffed /\ OutsideCurrentRanges(lp.currentLine, lp.hunks))
    => /\ lp.result.status = "resolved"
       /\ lp.result.commit = LpResolvedCommit
       /\ lp.result.line = lp.currentLine - OffsetOfPreceding(lp.currentLine, lp.hunks)

-----------------------------------------------------------------------------
(* Properties of findLatestCommitParentWithPath *)

\* The parents whose date lookup succeeded.
Succeeded == {i \in DOMAIN lt.lookups : lt.lookups[i].status = "resolved"}

LtReturned(i) ==
  /\ lt.pc = "done"
  /\ i \in DOMAIN lt.parents
  /\ lt.outcome = Resolved(lt.parents[i])

\* C33 as stated: the parents are reduced left to right, and of two parents
\* reporting the same date the earlier one in git's order is returned.
C33_EarlierParentOnTie ==
  \A i \in DOMAIN lt.parents :
    LtReturned(i) =>
      \A j \in Succeeded :
        /\ j < i => lt.lookups[j].value < lt.lookups[i].value
        /\ j > i => lt.lookups[j].value <= lt.lookups[i].value

\* C33 amended: the parents are reduced left to right, and of two parents
\* reporting the same date the later one in git's order is returned.
C33_LaterParentOnTie ==
  \A i \in DOMAIN lt.parents :
    LtReturned(i) =>
      /\ i \in Succeeded
      /\ \A j \in Succeeded :
           /\ j < i => lt.lookups[j].value <= lt.lookups[i].value
           /\ j > i => lt.lookups[j].value < lt.lookups[i].value

\* The first and the third parent report the same, latest date; the third
\* is returned.
C33_Witness ==
  /\ LtReturned(3)
  /\ lt.lookups[1] = Resolved(2)
  /\ lt.lookups[2] = Resolved(1)
  /\ lt.lookups[3] = Resolved(2)

\* The path has history at the parent.
HasPath(i) == i \in Succeeded /\ lt.lookups[i].value > 0

\* The parent returned has the latest date of those whose lookup succeeded,
\* and a parent whose lookup failed is never returned.
C34_LatestOfSucceeded ==
  \A i \in DOMAIN lt.parents :
    LtReturned(i) =>
      /\ i \in Succeeded
      /\ \A j \in Succeeded : lt.lookups[j].value <= lt.lookups[i].value

\* C34: the parent returned has the latest date of those whose lookup
\* succeeded; a parent whose lookup failed or at which the path has no
\* history is never returned; undefined is returned when the commit has no
\* parents or no parent has the path.
C34_LatestParentWithPath ==
  /\ C34_LatestOfSucceeded
  /\ \A i \in DOMAIN lt.parents : LtReturned(i) => HasPath(i)
  /\ (lt.pc = "done" /\ lt.outcome.status = "resolved"
        /\ ~\E i \in DOMAIN lt.lookups : HasPath(i))
       => lt.outcome = Resolved(UndefinedCommit)

-----------------------------------------------------------------------------
(* Properties of getDeletedCasefileRefs on a malformed commit indication line *)

\* The paths of the log in stream order, each with the commit it is listed
\* under and the form of that commit's indication line.
RECURSIVE ListedPaths(_)
ListedPaths(log) ==
  IF log = <<>>
    THEN <<>>
    ELSE [i \in 1..Len(Head(log).paths) |->
            [commit |-> Head(log).commit, form |-> Head(log).form]]
           \o ListedPaths(Tail(log))

\* The handler was given a record that begins with '-' whose first line is
\* not a well-formed commit indication line.
MalformedSeen ==
  \E i \in DOMAIN dl.stream.records :
    LET rec == dl.stream.records[i]
    IN  /\ Len(rec) > 0
        /\ rec[1] = "-"
        /\ \/ matchENDL(rec) = NoMatch
           \/ commitInfoOf(slice(rec, 0, matchENDL(rec).index)) = NoCommitInfo

\* C35: a record in the action state that begins with '-' and whose first
\* line is not a well-formed commit indication line makes the call fail with
\* InvalidGitLogOutput, and no entry is emitted with the commit of an earlier
\* line or with no commit.
C35_MalformedLineFails ==
  /\ (dl.pc = "done" /\ MalformedSeen) => dl.failure = "InvalidGitLogOutput"
  /\ \A i \in DOMAIN dl.parse.deletedCasefiles :
       /\ ListedPaths(dl.log)[i].form = "ok"
       /\ dl.parse.deletedCasefiles[i].commit = ListedPaths(dl.log)[i].commit

-----------------------------------------------------------------------------
(* Properties of a throwing exit callback *)

\* C36: when the exit callback throws, here lineIntroduction's with
\* NoCommitFound, the call is rejected with the thrown error as soon as the
\* process has exited and stdout has closed: it is not left pending for the
\* timer to reject.
C36_ThrownErrorRejects ==
  (li.exited /\ lineIntroductionExit(li.result).threw)
    => li.outcome = Rejected(lineIntroductionExit(li.result).code)

-----------------------------------------------------------------------------
(* Soundness of BookmarkFacilitator.currentLocation *)

\* The columns of a row at which the marked text begins.
ColumnsOf(row) ==
  {c \in 1..Len(row) : c + Len(MarkText) - 1 <= Len(row)
                       /\ SubSeq(row, c, c + Len(MarkText) - 1) = MarkText}

\* The row that settled the promise first, when a search found one: the
\* line blame gave, else the nearest in the range, else the nearest in the
\* window around the bookmark's line.
FirstReported ==
  IF bm.peg # 0 /\ bm.blame # 0 /\ bm.blame \in bm.marks THEN bm.blame
  ELSE IF bm.peg # 0 /\ RowsInRange # {} THEN NearestInRange
  ELSE IF RowsNear # {} THEN NearestRow
  ELSE 0

\* C37: whenever currentLocation resolves, its line is a line of the edit
\* buffer that contains the marked text and its col is the 1-based column of
\* the first occurrence of the text in that line; the first settlement is
\* final: a row reported by resolve stays the result when the reject that
\* closes the chain follows.
C37_ResolvedLocationIsSound ==
  /\ bm.result.status = "resolved"
       => /\ bm.result.line \in DOMAIN bm.file
          /\ ColumnsOf(bm.file[bm.result.line]) # {}
          /\ bm.result.col \in ColumnsOf(bm.file[bm.result.line])
          /\ \A c \in ColumnsOf(bm.file[bm.result.line]) : bm.result.col <= c
  /\ (bm.pc = "done" /\ FirstReported # 0)
       => bm.result.status = "resolved" /\ bm.result.line = FirstReported

\* The text is at columns 2 and 3 of line 5, found by the search of the
\* range after blame failed: column 2 is reported and the closing reject
\* left it.
C37_Witness ==
  /\ bm.pc = "done"
  /\ bm.peg # 0
  /\ bm.blame = 0
  /\ 5 \in bm.marks
  /\ bm.range # NoRange
  /\ bm.result = [status |-> "resolved", line |-> 5, col |-> 2, code |-> ""]

-----------------------------------------------------------------------------
(* Properties of the peg round trip over the diff *)

Covers(range, c) == (range.start <= c /\ c < range.end) \/ range.prime = c

\* The current line is the first line after the lines a pure insertion added.
AfterInsertion(c, hunks) ==
  \E i \in DOMAIN hunks :
    /\ hunks[i].baseStart = hunks[i].baseEnd
    /\ hunks[i].currentEnd = c

\* The range found for the peg covers the current line, unless that line is
\* the first one after a pure insertion.
C38_CoversUnlessAfterInsertion ==
  (pr.pc = "back" /\ pr.peg.commit # "" /\ ~AfterInsertion(pr.line, pr.hunks))
    => Covers(pr.back, pr.line)

\* C38: for the hunks of a diff and every current line c, when computeLinePeg
\* yields a peg with a commit, computeCurrentLineRange for the peg's line
\* over the same hunks yields a range that covers c.
C38_PegRoundTrip ==
  (pr.pc = "back" /\ pr.peg.commit # "") => Covers(pr.back, pr.line)

-----------------------------------------------------------------------------
(* Properties of deleteCasefilePaths beside another collaborator *)

OtherCasefileOnRemote == GitObjectAt(remoteRef, OtherPath) # None

\* A push of a commit built from the stale view is refused: no step takes
\* the other collaborator's casefile off the remote but the push that
\* deletes the remote ref.
C39_OnlyRefDeletionRemoves ==
  [][OtherCasefileOnRemote => (OtherCasefileOnRemote' \/ remoteRef' = None)]_vars

\* C39: once another collaborator has shared a casefile between this
\* client's read of its local ref and its push, deleteCasefilePaths leaves
\* that casefile, which is not among the paths requested, on the remote.
C39_OtherCasefileKept ==
  co.shared => OtherCasefileOnRemote

-----------------------------------------------------------------------------
(* Properties of DiffInteraction._getPath *)

hasProperty(v) == v.type # "undefined"

\* C40: a content argument {immediate: s}, s being any string, the empty
\* one too, is written to a temporary file whose path goes to diff;
\* UnknownContentType is raised only for an argument that has neither a
\* path nor an immediate property.
C40_ImmediateIsMaterialised ==
  dh.pc # "idle" =>
    \A i \in 1..2 :
      /\ hasProperty(contentOf(dh.content[i]).immediate)
           => dh.paths[i] \in {"writing", "resolved", "WriteFailed"}
      /\ dh.paths[i] = "UnknownContentType"
           => /\ ~hasProperty(contentOf(dh.content[i]).path)
              /\ ~hasProperty(contentOf(dh.content[i]).immediate)

\* An argument whose path or immediate property is a non-empty string is
\* never refused, and one with neither property always is.
C40_NonEmptyIsAccepted ==
  dh.pc # "idle" =>
    \A i \in 1..2 :
      /\ dh.content[i] \in {"path", "immediate"} => dh.paths[i] # "UnknownContentType"
      /\ dh.content[i] = "bad" => dh.paths[i] = "UnknownContentType"

=============================================================================
